---- MODULE Spec2Model ----
(***************************************************************************)
(* Verification model of the python-agent package: the Orchestrator        *)
(* executor (task_agent/orchestrator_executor.py), the model-backed agent  *)
(* executors, the A2A client and the task template generators.             *)
(*                                                                         *)
(* Python strings that the code inspects character by character are        *)
(* modelled as sequences of one-character strings.  Python values that a   *)
(* request may carry (dicts, lists, None, numbers) are modelled as records *)
(* with a tag naming the Python type.                                      *)
(***************************************************************************)
EXTENDS Integers, Sequences, FiniteSets, TLC

\* ------------------------------------------------------------------------
\* Bounds of the model
\* ------------------------------------------------------------------------

\* longest "tasks" list of an execute_jobs request
MaxTasks == 2

\* ------------------------------------------------------------------------
\* Strings
\* ------------------------------------------------------------------------

UpperChars == <<"A","B","C","D","E","F","G","H","I","J","K","L","M","N","O","P","Q","R","S","T","U","V","W","X","Y","Z">>
LowerChars == <<"a","b","c","d","e","f","g","h","i","j","k","l","m","n","o","p","q","r","s","t","u","v","w","x","y","z">>

\* str.lower() on one character
LowerChar(c) ==
    IF \E k \in 1..Len(UpperChars) : UpperChars[k] = c
    THEN LowerChars[CHOOSE k \in 1..Len(UpperChars) : UpperChars[k] = c]
    ELSE c

\* str.lower()
Lower(s) == [k \in 1..Len(s) |-> LowerChar(s[k])]

\* Python's  sub in s  for strings
Contains(sub, s) ==
    \E k \in 0..(Len(s) - Len(sub)) : SubSeq(s, k + 1, k + Len(sub)) = sub

\* any(keyword in s for keyword in keywords)
AnyKeywordIn(keywords, s) ==
    \E k \in 1..Len(keywords) : Contains(keywords[k], s)

\* ------------------------------------------------------------------------
\* Orchestrator: agent routing
\* ------------------------------------------------------------------------

TrendingKeywords ==
    << <<"t","r","e","n","d">>,
       <<"t","r","e","n","d","i","n","g">>,
       <<"c","u","r","r","e","n","t">>,
       <<"p","o","p","u","l","a","r">>,
       <<"v","i","r","a","l">> >>

MarketKeywords ==
    << <<"m","a","r","k","e","t">>,
       <<"s","t","o","c","k">>,
       <<"f","i","n","a","n","c","i","a","l">>,
       <<"i","n","v","e","s","t","m","e","n","t">>,
       <<"t","r","a","d","i","n","g">> >>

AnalyzerKeywords ==
    << <<"a","n","a","l","y","z","e">>,
       <<"a","n","a","l","y","s","i","s">>,
       <<"r","e","s","e","a","r","c","h">>,
       <<"s","t","u","d","y">> >>

\* a variant that takes the agent the task names when it names one
determine_best_agent_named(task_description, assigned_agent) ==
    LET task_lower == Lower(task_description) IN
    IF assigned_agent = "named trending" THEN "trending"
    ELSE IF assigned_agent = "named host" THEN "host"
    ELSE IF AnyKeywordIn(TrendingKeywords, task_lower) THEN "trending"
    ELSE IF AnyKeywordIn(MarketKeywords, task_lower) THEN "market_analysis"
    ELSE IF AnyKeywordIn(AnalyzerKeywords, task_lower) THEN "analyzer"
    ELSE "host"

\* Orchestrator._determine_best_agent; assigned_agent is not read
determine_best_agent(task_description, assigned_agent) ==
    LET task_lower == Lower(task_description) IN
    IF AnyKeywordIn(TrendingKeywords, task_lower) THEN "trending"
    ELSE IF AnyKeywordIn(MarketKeywords, task_lower) THEN "market_analysis"
    ELSE IF AnyKeywordIn(AnalyzerKeywords, task_lower) THEN "analyzer"
    ELSE "host"

\* the agent names _determine_best_agent can return
AgentNames == {"trending", "market_analysis", "analyzer", "host"}

\* Orchestrator.available_agents as set in __init__: the market_analysis
\* entry is commented out in the source
available_agents ==
    [a \in {"trending", "analyzer", "host"} |->
        CASE a = "trending" -> "http://localhost:10020"
          [] a = "analyzer" -> "http://localhost:10021"
          [] a = "host"     -> "http://localhost:10022"]

AgentUrls == {available_agents[a] : a \in DOMAIN available_agents}

\* ------------------------------------------------------------------------
\* Requests: the RequestContext an executor is called with
\* ------------------------------------------------------------------------

DescTrend == <<"V","i","r","a","l"," ","n","e","w","s">>
DescStock == <<"s","t","o","c","k">>
DescStudy == <<"S","t","u","d","y">>
DescPlain == <<"h","e","l","l","o">>

\* one element of the "tasks" list of an execute_jobs message.  isObj is
\* FALSE for an element that is not a JSON object; title "" and desc.ty
\* "absent" stand for a missing key; desc.ty "num" is a description that is
\* a JSON number.
TaskTrend   == [isObj |-> TRUE,  title |-> "Find",  desc |-> [ty |-> "str",    s |-> DescTrend]]
TaskStock   == [isObj |-> TRUE,  title |-> "Quote", desc |-> [ty |-> "str",    s |-> DescStock]]
TaskStudy   == [isObj |-> TRUE,  title |-> "",      desc |-> [ty |-> "str",    s |-> DescStudy]]
TaskPlain   == [isObj |-> TRUE,  title |-> "Greet", desc |-> [ty |-> "str",    s |-> DescPlain]]
TaskNoDesc  == [isObj |-> TRUE,  title |-> "Bare",  desc |-> [ty |-> "absent", s |-> << >>]]
TaskNumDesc == [isObj |-> TRUE,  title |-> "Num",   desc |-> [ty |-> "num",    s |-> << >>]]
TaskNotObj  == [isObj |-> FALSE, title |-> "",      desc |-> [ty |-> "absent", s |-> << >>]]

TaskVariants ==
    {TaskTrend, TaskStock, TaskStudy, TaskNoDesc, TaskNotObj}

\* every list of task variants up to the bound, and some lists with a
\* description that is not a string or that matches no keyword
TaskLists ==
    UNION {[1..n -> TaskVariants] : n \in 0..MaxTasks}
    \cup { << TaskNumDesc >>, << TaskNumDesc, TaskTrend >>,
           << TaskPlain >>, << TaskPlain, TaskNoDesc >> }

\* the value of the "tasks" key: missing, a list, or null
TasksAbsent   == [kind |-> "absent", items |-> << >>]
TasksNull     == [kind |-> "null",   items |-> << >>]
TasksList(l)  == [kind |-> "list",   items |-> l]

\* JSON documents: t is the type of the top-level value; type and tasks are
\* the "type" and "tasks" members of an object
JsonNull      == [t |-> "null", type |-> "absent", tasks |-> TasksAbsent]
JsonNumber    == [t |-> "num",  type |-> "absent", tasks |-> TasksAbsent]
JsonArray     == [t |-> "arr",  type |-> "absent", tasks |-> TasksAbsent]
JsonObject(type, tasks) == [t |-> "obj", type |-> type, tasks |-> tasks]

\* what one line of text holds: nothing, text that is not JSON, or one
\* complete JSON document
DocBlank      == [k |-> "blank", v |-> JsonNull]
DocText       == [k |-> "text",  v |-> JsonNull]
DocJson(v)    == [k |-> "json",  v |-> v]

\* a line of the text part.  meta: the line contains 'Urgency:', 'Context:'
\* or 'CanvasDocumentId:'; cur: the line is  <prefix>Current request:<body>;
\* otherwise the line is <body>
Line(meta, cur, body) == [meta |-> meta, cur |-> cur, body |-> body]

\* a message part.  ty "notext": part.root has no text attribute; "empty":
\* text is ""; "nonstr": text is a truthy value that is not a str; "str"
TextPart(lines) == [ty |-> "str",    lines |-> lines]
PartNoText      == [ty |-> "notext", lines |-> << >>]
PartEmpty       == [ty |-> "empty",  lines |-> << >>]
PartNonStr      == [ty |-> "nonstr", lines |-> << >>]

\* pushNotificationConfig: kind "absent" (no entry), "none" (None or {}),
\* "dict"; url and token are "" when the key is missing or the value empty
PushAbsent == [kind |-> "absent", url |-> "", token |-> ""]
PushNone   == [kind |-> "none",   url |-> "", token |-> ""]
PushDict(url, token) == [kind |-> "dict", url |-> url, token |-> token]

WebhookUrl   == "http://localhost:3000/hook"
WebhookToken == "tok"

\* message.configuration.  kind "absent": no attribute or None; "dict": a
\* dict with the entries blocking, pushNotificationConfig and, when other
\* is TRUE, some further entry; "obj": a truthy object without .get
ConfigAbsent == [kind |-> "absent", blocking |-> "absent", push |-> PushAbsent, other |-> FALSE]
ConfigObj    == [kind |-> "obj",    blocking |-> "absent", push |-> PushAbsent, other |-> FALSE]
ConfigDict(blocking, push, other) ==
    [kind |-> "dict", blocking |-> blocking, push |-> push, other |-> other]

\* values of the 'blocking' entry: Python True, False, 1, 0, a non-empty str
BlockingValues == {"True", "False", "one", "zero", "str"}

\* Python truthiness of those values
Truthy(v) == v \in {"True", "one", "str"}

\* bool(configuration) for a dict: an empty dict is falsy
ConfigTruthy(c) ==
    \/ c.kind = "obj"
    \/ /\ c.kind = "dict"
       /\ (c.blocking # "absent" \/ c.push.kind # "absent" \/ c.other)

RequestContext(task_id, context_id, hasMessage, parts, config) ==
    [task_id |-> task_id, context_id |-> context_id, hasMessage |-> hasMessage,
     parts |-> parts, config |-> config]

\* ------------------------------------------------------------------------
\* Orchestrator: pure helpers of execute
\* ------------------------------------------------------------------------

\* the list comprehension of _extract_user_message: drop metadata lines,
\* keep what follows "Current request:", keep other lines as they are
RECURSIVE CleanLines(_)
CleanLines(lines) ==
    IF lines = << >> THEN << >>
    ELSE IF Head(lines).meta THEN CleanLines(Tail(lines))
    ELSE <<Head(lines).body>> \o CleanLines(Tail(lines))

\* str.strip() on the joined lines: leading and trailing blank lines go
RECURSIVE StripLeft(_)
StripLeft(docs) ==
    IF docs # << >> /\ Head(docs).k = "blank" THEN StripLeft(Tail(docs)) ELSE docs

RECURSIVE StripRight(_)
StripRight(docs) ==
    IF docs # << >> /\ docs[Len(docs)].k = "blank"
    THEN StripRight(SubSeq(docs, 1, Len(docs) - 1)) ELSE docs

Strip(docs) == StripRight(StripLeft(docs))

\* Orchestrator._extract_user_message: the cleaned text of the first part
\* whose text is truthy, "" (the empty sequence of lines) when there is none.
\* raised: text.split fails on a text that is not a str.
RECURSIVE ExtractFromParts(_)
ExtractFromParts(parts) ==
    IF parts = << >> THEN [raised |-> FALSE, value |-> << >>]
    ELSE IF Head(parts).ty = "str"
         THEN [raised |-> FALSE, value |-> Strip(CleanLines(Head(parts).lines))]
    ELSE IF Head(parts).ty = "nonstr"
         THEN [raised |-> TRUE, value |-> << >>]
    ELSE ExtractFromParts(Tail(parts))

extract_user_message(context) ==
    IF context.hasMessage THEN ExtractFromParts(context.parts)
    ELSE [raised |-> FALSE, value |-> << >>]

\* json.loads on a message: succeeds when the text is one JSON document
\* (blank lines around it are whitespace); text that is not JSON, the empty
\* string and a document followed by more text all raise
JsonLoads(message) ==
    LET docs == SelectSeq(message, LAMBDA d : d.k # "blank") IN
    IF Len(docs) = 1 /\ docs[1].k = "json"
    THEN [ok |-> TRUE, v |-> docs[1].v]
    ELSE [ok |-> FALSE, v |-> JsonNull]

\* a variant that accepts every object with a "type" member
is_job_execution_request_anytype(message) ==
    LET data == JsonLoads(message) IN
    data.ok /\ data.v.t = "obj" /\ data.v.type # "absent"

\* Orchestrator._is_job_execution_request: data.get raises on a value that
\* is not a dict, and the bare except turns every error into False
is_job_execution_request(message) ==
    LET data == JsonLoads(message) IN
    IF ~data.ok THEN FALSE
    ELSE IF data.v.t # "obj" THEN FALSE
    ELSE data.v.type = "execute_jobs"

\* a variant whose default is non-blocking
is_blocking_request_defaultfalse(context) ==
    IF context.hasMessage /\ ConfigTruthy(context.config)
    THEN IF context.config.kind = "obj"
         THEN [raised |-> TRUE, value |-> "False"]
         ELSE [raised |-> FALSE,
               value |-> IF context.config.blocking = "absent" THEN "False"
                         ELSE context.config.blocking]
    ELSE [raised |-> FALSE, value |-> "False"]

\* Orchestrator._is_blocking_request: the raw 'blocking' entry (False when
\* missing) of a truthy configuration, True otherwise.  raised: the
\* configuration has no .get
is_blocking_request(context) ==
    IF context.hasMessage /\ ConfigTruthy(context.config)
    THEN IF context.config.kind = "obj"
         THEN [raised |-> TRUE, value |-> "False"]
         ELSE [raised |-> FALSE,
               value |-> IF context.config.blocking = "absent" THEN "False"
                         ELSE context.config.blocking]
    ELSE [raised |-> FALSE, value |-> "True"]

\* ------------------------------------------------------------------------
\* Orchestrator: webhooks
\* ------------------------------------------------------------------------

\* what the receiving application can do with one POST
WebhookOutcomes == {"204", "500", "exception"}

\* webhook ids: task_id itself (job = -1) or f"{task_id}-job-{i}"
TaskLevelId(task_id) == [base |-> task_id, job |-> -1]
\* a variant that numbers the jobs from 1
JobLevelId_from1(task_id, i) == [base |-> task_id, job |-> i + 1]

JobLevelId(task_id, i) == [base |-> task_id, job |-> i]

\* a variant that sends the POST a second time when the delivery failed
call_webhook_retry(posts, url, token, task_data, outcome) ==
    LET payload == [id        |-> task_data.id,
                    contextId |-> task_data.contextId,
                    kind      |-> "task",
                    status    |-> task_data.status,
                    artifacts |-> task_data.artifacts]
        post == [url |-> url, bearer |-> token, json |-> payload]
    IN [posts |-> IF outcome = "204" THEN Append(posts, post)
                  ELSE Append(Append(posts, post), post),
        ok    |-> (outcome = "204")]

\* Orchestrator._call_webhook: one POST of the payload built from task_data
\* with the bearer token; True on status 204, False on any other status and
\* on an exception.  posts is the sequence of HTTP POSTs sent so far.
call_webhook(posts, url, token, task_data, outcome) ==
    LET payload == [id        |-> task_data.id,
                    contextId |-> task_data.contextId,
                    kind      |-> "task",
                    status    |-> task_data.status,
                    artifacts |-> task_data.artifacts]
    IN [posts |-> Append(posts, [url |-> url, bearer |-> token, json |-> payload]),
        ok    |-> (outcome = "204")]

\* ------------------------------------------------------------------------
\* Orchestrator: calls to remote agents
\* ------------------------------------------------------------------------

\* what GET <agent_url>/.well-known/agent.json can do: a status other than
\* 200, a ConnectError, a TimeoutException, another exception (also a body
\* that is not JSON), or status 200 with a JSON body that is a valid agent
\* card ("good"), an object AgentCard rejects ("bad"), or null
CardOutcomes == {"status", "connect", "timeout", "exc", "good", "bad", "null"}

\* what client.send_message can do: raise, answer with an artifact that has
\* a text part, or answer without one
SendOutcomes == {"exc", "text", "dump"}

\* texts a remote agent answers with
Replies == {"reply-a", "reply-b"}

\* what the network does during one call of an agent: the card request and,
\* when a usable card is served, the message exchange.  send and reply are
\* fixed where the code cannot get to them.
NetOutcomes ==
    {[card |-> c, send |-> "exc", reply |-> "reply-a"] : c \in CardOutcomes}
    \cup {[card |-> "good", send |-> "dump", reply |-> "reply-a"]}
    \cup {[card |-> "good", send |-> "text", reply |-> r] : r \in Replies}

\* the strings the agent-calling functions return: kind names the f-string,
\* about the url or agent name it embeds, text the agent's reply, desc the
\* task description it embeds
ResultString(kind, about, text, desc) ==
    [kind |-> kind, about |-> about, text |-> text, desc |-> desc]

\* _agent_info_cache after construction: no entry for any url
EmptyCache == [u \in AgentUrls |-> "none"]

\* a variant that never finds a cached card
CacheHit_never(cache, agent_url) == FALSE

\* a cache hit: the url has an entry and the entry is not None
CacheHit(cache, agent_url) == cache[agent_url] \in {"good", "bad"}

\* Orchestrator._call_a2a_agent.  fetched: the agent card was requested;
\* sent: send_message was called.
call_a2a_agent(cache, agent_url, message, net) ==
    IF ~CacheHit(cache, agent_url) /\ net.card \in {"status", "connect", "timeout", "exc"}
    THEN [cache   |-> cache,
          result  |-> ResultString(
                        CASE net.card = "status"  -> "card_status"
                          [] net.card = "connect" -> "cannot_connect"
                          [] net.card = "timeout" -> "connect_timeout"
                          [] OTHER                -> "connect_unexpected",
                        agent_url, "", << >>),
          fetched |-> TRUE, sent |-> FALSE]
    ELSE
    LET cache1 == IF CacheHit(cache, agent_url) THEN cache
                  ELSE [cache EXCEPT ![agent_url] = net.card]
        fetched == ~CacheHit(cache, agent_url)
    IN  IF cache1[agent_url] # "good"
        THEN \* AgentCard(**agent_card_data) raises
             [cache |-> cache1,
              result |-> ResultString("create_failed", agent_url, "", << >>),
              fetched |-> fetched, sent |-> FALSE]
        ELSE [cache |-> cache1,
              result |-> CASE net.send = "exc"  -> ResultString("send_unexpected", agent_url, "", << >>)
                           [] net.send = "text" -> ResultString("text", "", net.reply, << >>)
                           [] OTHER             -> ResultString("dump", "", "", << >>),
              fetched |-> fetched, sent |-> TRUE]

\* Orchestrator._execute_task_with_agent.  calls: the calls made to
\* _call_a2a_agent (none or one)
execute_task_with_agent(cache, task_description, assigned_agent, net) ==
    IF task_description.ty = "num"
    THEN \* task_description.lower() raises; caught by the function
         [cache |-> cache, calls |-> << >>,
          result |-> ResultString("exec_error", "", "", << >>)]
    ELSE
    LET agent_name == determine_best_agent(task_description.s, assigned_agent) IN
    IF agent_name \notin DOMAIN available_agents
    THEN [cache |-> cache, calls |-> << >>,
          result |-> ResultString("not_available", agent_name, "", task_description.s)]
    ELSE
    LET agent_url == available_agents[agent_name]
        r == call_a2a_agent(cache, agent_url, task_description.s, net)
    IN [cache |-> r.cache,
        calls |-> << [agent |-> agent_name, url |-> agent_url,
                      message |-> task_description.s,
                      fetched |-> r.fetched, sent |-> r.sent] >>,
        result |-> r.result]

\* ------------------------------------------------------------------------
\* Orchestrator: task generation
\* ------------------------------------------------------------------------

\* longest model answer, in tokens
MaxContent == 3

\* a job object of the model's answer.  title, description, id, status: ""
\* when the key is missing.  agent.kind: "absent" or "dict";
\* agent.id: 0 when the dict has no id,
\* -1 for an id the model wrote, n > 0 for f"agent-{n}"
JobFull    == [isObj |-> TRUE, title |-> "Plan", description |-> "Plan it", id |-> "",
               status |-> "", agent |-> [kind |-> "dict", id |-> 0]]
JobBare    == [isObj |-> TRUE, title |-> "", description |-> "", id |-> "llm-id",
               status |-> "done", agent |-> [kind |-> "absent", id |-> 0]]
JobNotObj  == [isObj |-> FALSE, title |-> "", description |-> "", id |-> "",
               status |-> "", agent |-> [kind |-> "absent", id |-> 0]]

\* tokens of response.choices[0].message.content: the two brackets, prose,
\* and whole job objects
TokOpen   == [tok |-> "[",   job |-> JobNotObj]
TokClose  == [tok |-> "]",   job |-> JobNotObj]
TokProse  == [tok |-> "txt", job |-> JobNotObj]
TokJob(j) == [tok |-> "job", job |-> j]

ContentTokens == {TokOpen, TokClose, TokProse, TokJob(JobFull), TokJob(JobBare), TokJob(JobNotObj)}

\* every answer up to the bound, and some longer answers with two jobs
Contents ==
    UNION {[1..n -> ContentTokens] : n \in 0..MaxContent}
    \cup { << TokOpen, TokJob(JobFull), TokJob(JobBare), TokClose >>,
           << TokProse, TokOpen, TokJob(JobBare), TokJob(JobFull), TokClose, TokProse >>,
           << TokOpen, TokJob(JobFull), TokJob(JobFull), TokClose >>,
           << TokOpen, TokJob(JobFull), TokJob(JobNotObj), TokClose >> }

\* what chat.completions.create can do: raise, or answer with a content
ApiOutcomes == {[raised |-> TRUE, content |-> << >>]}
               \cup {[raised |-> FALSE, content |-> c] : c \in Contents}

\* str.find and str.rfind of a bracket: 0-based index, -1 when not found
Find(content, tok) ==
    IF \E k \in 1..Len(content) : content[k].tok = tok
    THEN (CHOOSE k \in 1..Len(content) :
            /\ content[k].tok = tok
            /\ \A m \in 1..(k - 1) : content[m].tok # tok) - 1
    ELSE -1

RFind(content, tok) ==
    IF \E k \in 1..Len(content) : content[k].tok = tok
    THEN (CHOOSE k \in 1..Len(content) :
            /\ content[k].tok = tok
            /\ \A m \in (k + 1)..Len(content) : content[m].tok # tok) - 1
    ELSE -1

\* content[start:end] for 0 <= start, 0 <= end
Slice(content, start, end) == SubSeq(content, start + 1, end)

\* json.loads of the slice: a JSON array of the job objects between the
\* brackets; ok is FALSE when json.loads raises
LoadJobArray(json_str) ==
    IF /\ Len(json_str) >= 2
       /\ json_str[1].tok = "["
       /\ json_str[Len(json_str)].tok = "]"
       /\ \A k \in 2..(Len(json_str) - 1) : json_str[k].tok = "job"
    THEN [ok |-> TRUE,
          jobs |-> [k \in 1..(Len(json_str) - 2) |-> json_str[k + 1].job]]
    ELSE [ok |-> FALSE, jobs |-> << >>]

\* the loop of _generate_jobs_with_openai that completes the jobs in place:
\* an id and a status where missing, and for a dict assignedAgent without id
\* the next agent id.  raised: an element that is not a dict.
RECURSIVE CompleteJobs(_, _)
CompleteJobs(jobs, counter) ==
    IF jobs = << >> THEN [raised |-> FALSE, jobs |-> << >>, agent_counter |-> counter]
    ELSE IF ~Head(jobs).isObj
         THEN [raised |-> TRUE, jobs |-> << >>, agent_counter |-> counter]
    ELSE
    LET job == Head(jobs)
        needsId == job.agent.kind = "dict" /\ job.agent.id = 0
        counter1 == IF needsId THEN counter + 1 ELSE counter
        done == [job EXCEPT !.id = IF job.id = "" THEN "uuid4" ELSE job.id,
                            !.status = IF job.status = "" THEN "submitted" ELSE job.status,
                            !.agent.id = IF needsId THEN counter1 ELSE job.agent.id]
        rest == CompleteJobs(Tail(jobs), counter1)
    IN [raised |-> rest.raised,
        jobs |-> IF rest.raised THEN << >> ELSE <<done>> \o rest.jobs,
        agent_counter |-> rest.agent_counter]

\* Orchestrator._generate_jobs_with_openai.  Without a client the method
\* calls self._generate_jobs_fallback, which the class does not define
\* (AttributeError).
generate_jobs_with_openai(openai_client, user_message, api, agent_counter) ==
    IF ~openai_client THEN [raised |-> TRUE, jobs |-> << >>, agent_counter |-> agent_counter]
    ELSE IF api.raised THEN [raised |-> TRUE, jobs |-> << >>, agent_counter |-> agent_counter]
    ELSE
    LET start_idx == Find(api.content, "[")
        end_idx   == RFind(api.content, "]") + 1
    IN  IF start_idx # -1 /\ end_idx # -1
        THEN LET parsed == LoadJobArray(Slice(api.content, start_idx, end_idx)) IN
             IF ~parsed.ok
             THEN [raised |-> TRUE, jobs |-> << >>, agent_counter |-> agent_counter]
             ELSE CompleteJobs(parsed.jobs, agent_counter)
        ELSE [raised |-> TRUE, jobs |-> << >>, agent_counter |-> agent_counter]

\* a variant that keeps the id and the status the job carried
generate_task_data_fromjob(job, i, user_message, context) ==
    [type |-> "task",
     id |-> job.id,
     title |-> IF job.title = "" THEN [text |-> "Task", n |-> i + 1]
               ELSE [text |-> job.title, n |-> 0],
     description |-> IF job.description = "" THEN [text |-> "Generated task for", n |-> i + 1]
                     ELSE [text |-> job.description, n |-> 0],
     status |-> job.status,
     assignedAgent |-> job.agent,
     contextId |-> context.context_id,
     priority |-> "medium",
     order |-> i,
     userRequest |-> user_message]

\* Orchestrator._generate_task_data: the task object of job number i
\* (0-based).  A defaulted title is f"Task {i+1}", a defaulted description
\* f"Generated task {i+1} for: {user_message}"; n is that number, 0 for a
\* text taken from the job.
generate_task_data(job, i, user_message, context) ==
    [type |-> "task",
     id |-> "uuid4",
     title |-> IF job.title = "" THEN [text |-> "Task", n |-> i + 1]
               ELSE [text |-> job.title, n |-> 0],
     description |-> IF job.description = "" THEN [text |-> "Generated task for", n |-> i + 1]
                     ELSE [text |-> job.description, n |-> 0],
     status |-> "submitted",
     assignedAgent |-> job.agent,
     contextId |-> context.context_id,
     priority |-> "medium",
     order |-> i,
     userRequest |-> user_message]

\* the data parts of the artifact: one per job, in list order
DataParts(jobs, user_message, context) ==
    [k \in 1..Len(jobs) |-> generate_task_data(jobs[k], k - 1, user_message, context)]

\* events put on the event queue
StatusEvent(context, state, final) ==
    [kind |-> "status", taskId |-> context.task_id, contextId |-> context.context_id,
     state |-> state, final |-> final, parts |-> << >>, count |-> 0]

ArtifactEvent(context, parts, final) ==
    [kind |-> "artifact", taskId |-> context.task_id, contextId |-> context.context_id,
     state |-> "", final |-> final, parts |-> parts, count |-> 0]

\* new_agent_text_message("... created {len(jobs)} structured tasks ...")
TextMessageEvent(count) ==
    [kind |-> "message", taskId |-> "", contextId |-> "",
     state |-> "", final |-> FALSE, parts |-> << >>, count |-> count]

\* ------------------------------------------------------------------------
\* Requests the Orchestrator is run on
\* ------------------------------------------------------------------------

TaskIds    == {"task-1"}
ContextIds == {"ctx-1"}

PlainLine(d) == Line(FALSE, FALSE, d)

\* the message is one text part holding the document on one line
ShapePlain(d) == << TextPart(<< PlainLine(d) >>) >>

\* other ways a client wraps the document d
Shapes(d) ==
    { ShapePlain(d),
      << TextPart(<< Line(TRUE, FALSE, DocText), PlainLine(d) >>) >>,
      << TextPart(<< Line(FALSE, TRUE, d) >>) >>,
      << TextPart(<< Line(TRUE, FALSE, d) >>) >>,
      << TextPart(<< PlainLine(d), PlainLine(DocText) >>) >>,
      << TextPart(<< PlainLine(DocBlank), PlainLine(d), PlainLine(DocBlank) >>) >>,
      << PartNoText, PartEmpty, TextPart(<< PlainLine(d) >>) >>,
      << TextPart(<< PlainLine(DocText) >>), TextPart(<< PlainLine(d) >>) >>,
      << PartNonStr, TextPart(<< PlainLine(d) >>) >>,
      << >> }

ExecuteJobsDoc(tasks) == DocJson(JsonObject("execute_jobs", tasks))

JobDocs ==
    {ExecuteJobsDoc(TasksAbsent), ExecuteJobsDoc(TasksNull)}
    \cup {ExecuteJobsDoc(TasksList(l)) : l \in TaskLists}

SampleJobDoc == ExecuteJobsDoc(TasksList(<< TaskTrend >>))

OtherDocs ==
    { DocBlank, DocText, DocJson(JsonNull), DocJson(JsonNumber), DocJson(JsonArray),
      DocJson(JsonObject("absent", TasksAbsent)),
      DocJson(JsonObject("other", TasksList(<< TaskTrend >>))) }

CompletePush == PushDict(WebhookUrl, WebhookToken)

PushConfigs ==
    { PushAbsent, PushNone, CompletePush,
      PushDict("", WebhookToken), PushDict(WebhookUrl, ""), PushDict("", "") }

CompleteConfig == ConfigDict("absent", CompletePush, FALSE)

BlockingConfigs ==
    {ConfigAbsent, ConfigObj}
    \cup {ConfigDict(b, PushAbsent, o) : b \in BlockingValues \cup {"absent"}, o \in BOOLEAN}

PushOnlyConfigs == {ConfigDict("absent", p, FALSE) : p \in PushConfigs}

Requests ==
    \* job execution with a complete webhook configuration, every task list
    {RequestContext(t, c, TRUE, ShapePlain(d), CompleteConfig) :
        t \in TaskIds, c \in ContextIds, d \in JobDocs}
    \* one job and one prose message under every configuration
    \cup {RequestContext(t, c, TRUE, ShapePlain(d), cfg) :
        t \in TaskIds, c \in ContextIds, d \in {SampleJobDoc, DocText},
        cfg \in BlockingConfigs \cup PushOnlyConfigs \cup {ConfigDict("True", CompletePush, TRUE)}}
    \* every kind of document in every wrapping
    \cup {RequestContext(t, c, TRUE, s, cfg) :
        t \in TaskIds, c \in ContextIds,
        s \in UNION {Shapes(d) : d \in OtherDocs \cup {SampleJobDoc}},
        cfg \in {ConfigAbsent, ConfigDict("False", CompletePush, FALSE)}}
    \* a context without a message
    \cup {RequestContext(t, c, FALSE, << >>, ConfigAbsent) : t \in TaskIds, c \in ContextIds}

\* ------------------------------------------------------------------------
\* State of one Orchestrator instance running execute
\* ------------------------------------------------------------------------

VARIABLES
    ctx,                \* the RequestContext of the call
    openai_client,      \* self.openai_client is not None
    agent_counter,      \* self.agent_counter
    agent_info_cache,   \* self._agent_info_cache
    pc,                 \* position of execute
    user_message,       \* local of execute
    is_blocking,        \* local is_blocking_request of execute
    tasks,              \* local tasks of _execute_jobs_async
    idx,                \* loop index i of _execute_jobs_async
    result,             \* local result of _execute_jobs_async
    events,             \* the event queue, in enqueue order
    posts,              \* HTTP POSTs sent to the webhook, in order
    webhook_calls,      \* number of calls of _call_webhook
    webhook_failed,     \* some POST did not answer 204
    agent_calls,        \* calls of _call_a2a_agent, in order
    returns,            \* values returned by _execute_task_with_agent, in order
    called,             \* methods execute has dispatched to
    raisedAt            \* the step whose exception reached execute's handler

orchVars == <<ctx, openai_client, agent_counter, agent_info_cache, pc, user_message,
              is_blocking, tasks, idx, result, events, posts, webhook_calls,
              webhook_failed, agent_calls, returns, called, raisedAt>>

\* ------------------------------------------------------------------------
\* State of the other components
\* ------------------------------------------------------------------------

VARIABLES
    x_agent,            \* the executor called: host, analyzer, trending, market_analysis
    x_context,          \* its RequestContext: ids, query and whether current_task is set
    x_pc,               \* position of execute
    x_yielded,          \* items the agent's stream() has yielded
    x_model,            \* what the model call did, once it was made
    x_events            \* the event queue, in enqueue order

agentVars == <<x_agent, x_context, x_pc, x_yielded, x_model, x_events>>

VARIABLES
    k_orch_cache,       \* Orchestrator._agent_info_cache
    k_client_cache,     \* A2ASimpleClient._agent_info_cache
    k_calls,            \* calls made, per caller and agent url
    k_fetches,          \* agent card requests made, per caller and agent url
    k_stored_at,        \* number of the call that cached a card, 0 for none
    k_last              \* what the last call returned

callVars == <<k_orch_cache, k_client_cache, k_calls, k_fetches, k_stored_at, k_last>>

VARIABLES
    job_counter,        \* TaskAgentExecutor.job_counter
    g_agent_counter,    \* TaskAgentExecutor.agent_counter
    tasks_store,        \* TaskAgentExecutor.tasks_store
    g_calls,            \* calls of _generate_jobs made
    g_prev,             \* the call before the last: message, counters before, jobs
    g_last              \* the last call

genVars == <<job_counter, g_agent_counter, tasks_store, g_calls, g_prev, g_last>>

VARIABLES
    c_ctx,              \* the RequestContext of the CanvasAgentExecutor call
    c_pc,               \* position of CanvasAgentExecutor.execute
    c_user_message,     \* local user_message of execute
    c_events,           \* the event queue, in enqueue order
    c_task_counter,     \* CanvasAgentExecutor.task_counter
    c_agent_counter,    \* CanvasAgentExecutor.agent_counter
    c_toolcall_id,      \* local toolcall_id of _call_create_canvas_tool
    c_tasks,            \* local tasks of _call_create_canvas_tool
    c_raised,           \* the step of the current call that raised, "none" for none
    c_runs              \* execute calls begun on this executor

canvasVars == <<c_ctx, c_pc, c_user_message, c_events, c_task_counter, c_agent_counter,
                c_toolcall_id, c_tasks, c_raised, c_runs>>

VARIABLES
    d_description,      \* task_description of the last _determine_best_agent call
    d_assigned,         \* assigned_agent of that call
    d_result,           \* what it returned
    d_prev,             \* description, assigned_agent and result of the call before
    d_calls             \* calls made

routeVars == <<d_description, d_assigned, d_result, d_prev, d_calls>>

VARIABLES
    f_client,           \* TaskAgentExecutor.openai_client is not None
    f_agent_counter,    \* TaskAgentExecutor.agent_counter
    f_pc,               \* position of _generate_jobs_with_openai
    f_message,          \* its argument user_message
    f_exc,              \* the exception its try block raised in this call
    f_fallback,         \* _generate_jobs_fallback was entered in this call
    f_jobs,             \* the list it returned
    f_calls             \* calls made

customVars == <<f_client, f_agent_counter, f_pc, f_message, f_exc, f_fallback, f_jobs, f_calls>>

VARIABLES
    l_client,           \* A2ASimpleClient.openai_client is not None
    l_cache,            \* A2ASimpleClient._agent_info_cache
    l_pc,               \* position of process_with_llm
    l_iteration,        \* local iteration
    l_messages,         \* local messages, the conversation
    l_i,                \* index of the tool call the for loop is at, from 1
    l_sent,             \* length of messages at each chat.completions.create call
    l_agent_calls,      \* calls of create_task, in order
    l_result            \* what process_with_llm returned or raised

llmVars == <<l_client, l_cache, l_pc, l_iteration, l_messages, l_i, l_sent, l_agent_calls, l_result>>

\* the variables of the other components, which a step of one leaves alone
othersOfOrch       == <<agentVars, callVars, genVars, canvasVars, routeVars, customVars, llmVars>>
othersOfAgents     == <<orchVars, callVars, genVars, canvasVars, routeVars, customVars, llmVars>>
othersOfCalls      == <<orchVars, agentVars, genVars, canvasVars, routeVars, customVars, llmVars>>
othersOfGeneration == <<orchVars, agentVars, callVars, canvasVars, routeVars, customVars, llmVars>>
othersOfCanvas     == <<orchVars, agentVars, callVars, genVars, routeVars, customVars, llmVars>>
othersOfRouting    == <<orchVars, agentVars, callVars, genVars, canvasVars, customVars, llmVars>>
othersOfCustom     == <<orchVars, agentVars, callVars, genVars, canvasVars, routeVars, llmVars>>
othersOfLlm        == <<orchVars, agentVars, callVars, genVars, canvasVars, routeVars, customVars>>

NoResult == ResultString("", "", "", << >>)

\* Orchestrator.__init__ followed by the arrival of a request
OrchInit ==
    /\ ctx \in Requests
    /\ openai_client \in BOOLEAN
    /\ agent_counter = 0
    /\ agent_info_cache = EmptyCache
    /\ pc = "extract"
    /\ user_message = << >>
    /\ is_blocking = "unset"
    /\ tasks = TasksAbsent
    /\ idx = 0
    /\ result = NoResult
    /\ events = << >>
    /\ posts = << >>
    /\ webhook_calls = 0
    /\ webhook_failed = FALSE
    /\ agent_calls = << >>
    /\ returns = << >>
    /\ called = {}
    /\ raisedAt = "none"

\* ------------------------------------------------------------------------
\* Orchestrator.execute, step by step
\* ------------------------------------------------------------------------

\* an exception leaves the try block of execute at the named step
Raise(step) ==
    /\ pc' = "except"
    /\ raisedAt' = step

\* a call of _call_webhook from _execute_jobs_async; the returned bool is
\* dropped by every caller
SendWebhook(task_data, outcome) ==
    LET r == call_webhook(posts, ctx.config.push.url, ctx.config.push.token,
                          task_data, outcome)
    IN /\ posts' = r.posts
       /\ webhook_calls' = webhook_calls + 1
       /\ webhook_failed' = (webhook_failed \/ ~r.ok)

\* status of a webhook payload: message is the f-string, arg its argument
WebhookStatus(state, message, arg) ==
    [state |-> state, message |-> message, arg |-> arg]

\* task.get("title", f"Task {i+1}")
TitleOf(task, i) ==
    IF task.title = "" THEN [text |-> "Task", n |-> i + 1]
    ELSE [text |-> task.title, n |-> 0]

NoTitle == [text |-> "", n |-> 0]

TaskData(id, state, message, arg, artifacts) ==
    [id |-> id, contextId |-> ctx.context_id,
     status |-> WebhookStatus(state, message, arg), artifacts |-> artifacts]

\* execute, line 79: user_message = self._extract_user_message(context)
ExtractMessage ==
    /\ pc = "extract"
    /\ LET r == extract_user_message(ctx) IN
       IF r.raised
       THEN /\ Raise("extract")
            /\ UNCHANGED user_message
       ELSE /\ user_message' = r.value
            /\ pc' = "classify"
            /\ UNCHANGED raisedAt
    /\ UNCHANGED othersOfOrch
    /\ UNCHANGED <<ctx, openai_client, agent_counter, agent_info_cache, is_blocking,
                   tasks, idx, result, events, posts, webhook_calls, webhook_failed,
                   agent_calls, returns, called>>

\* execute, line 84: is_blocking_request = self._is_blocking_request(context)
ClassifyBlocking ==
    /\ pc = "classify"
    /\ LET r == is_blocking_request(ctx) IN
       IF r.raised
       THEN /\ Raise("classify")
            /\ UNCHANGED is_blocking
       ELSE /\ is_blocking' = r.value
            /\ pc' = "dispatch"
            /\ UNCHANGED raisedAt
    /\ UNCHANGED othersOfOrch
    /\ UNCHANGED <<ctx, openai_client, agent_counter, agent_info_cache, user_message,
                   tasks, idx, result, events, posts, webhook_calls, webhook_failed,
                   agent_calls, returns, called>>

\* execute, lines 88-108: the branch on _is_job_execution_request and, for
\* task generation, on is_blocking_request
Dispatch ==
    /\ pc = "dispatch"
    /\ IF is_job_execution_request(user_message)
       THEN /\ called' = called \cup {"_execute_jobs_async"}
            /\ pc' = "jobs_begin"
       ELSE IF Truthy(is_blocking)
       THEN /\ called' = called \cup {"_generate_tasks_blocking"}
            /\ pc' = "gen_blocking"
       ELSE /\ called' = called \cup {"_generate_tasks_response"}
            /\ pc' = "gen_response"
    /\ UNCHANGED othersOfOrch
    /\ UNCHANGED <<ctx, openai_client, agent_counter, agent_info_cache, user_message,
                   is_blocking, tasks, idx, result, events, posts, webhook_calls,
                   webhook_failed, agent_calls, returns, raisedAt>>

\* a variant that does not look at the token
WebhookConfigured_urlonly(context) ==
    /\ context.hasMessage
    /\ ConfigTruthy(context.config)
    /\ context.config.push.kind = "dict"
    /\ context.config.push.url # ""

\* the webhook configuration _execute_jobs_async reads is usable
WebhookConfigured(context) ==
    /\ context.hasMessage
    /\ ConfigTruthy(context.config)
    /\ context.config.push.kind = "dict"
    /\ context.config.push.url # ""
    /\ context.config.push.token # ""

\* job_data.get("tasks", []) of the parsed message
TasksOf(message) ==
    LET job_data == JsonLoads(message) IN
    IF ~job_data.ok \/ job_data.v.t # "obj" THEN TasksList(<< >>)
    ELSE IF job_data.v.tasks.kind = "absent" THEN TasksList(<< >>)
    ELSE job_data.v.tasks

\* _execute_jobs_async, lines 246-283: return early without a usable webhook
\* configuration; otherwise send the initial webhook and parse the tasks
JobsBegin ==
    /\ pc = "jobs_begin"
    /\ IF ~WebhookConfigured(ctx)
       THEN /\ pc' = "jobs_after"
            /\ UNCHANGED <<tasks, posts, webhook_calls, webhook_failed>>
       ELSE /\ \E outcome \in WebhookOutcomes :
                 SendWebhook(TaskData(TaskLevelId(ctx.task_id), "working",
                                      "Starting job execution with A2A agents",
                                      NoTitle, << >>), outcome)
            /\ tasks' = TasksOf(user_message)
            /\ pc' = "job_loop"
    /\ UNCHANGED othersOfOrch
    /\ UNCHANGED <<ctx, openai_client, agent_counter, agent_info_cache, user_message,
                   is_blocking, idx, result, events, agent_calls, returns, called,
                   raisedAt>>

\* _execute_jobs_async, lines 285-297: the head of the loop and the
\* 'working' webhook of job idx.  enumerate(None) and task.get on a task
\* that is not a dict raise.
JobStart ==
    /\ pc = "job_loop"
    /\ \/ tasks.kind = "null"
       \/ idx < Len(tasks.items)
    /\ IF tasks.kind = "null" \/ ~tasks.items[idx + 1].isObj
       THEN /\ Raise("jobs")
            /\ UNCHANGED <<posts, webhook_calls, webhook_failed>>
       ELSE /\ \E outcome \in WebhookOutcomes :
                 SendWebhook(TaskData(JobLevelId(ctx.task_id, idx), "working",
                                      "Executing", TitleOf(tasks.items[idx + 1], idx),
                                      << >>), outcome)
            /\ pc' = "job_exec"
            /\ UNCHANGED raisedAt
    /\ UNCHANGED othersOfOrch
    /\ UNCHANGED <<ctx, openai_client, agent_counter, agent_info_cache, user_message,
                   is_blocking, tasks, idx, result, events, agent_calls, returns,
                   called>>

\* _execute_jobs_async, line 300: result = await _execute_task_with_agent(...)
JobExec ==
    /\ pc = "job_exec"
    /\ \E net \in NetOutcomes :
         LET r == execute_task_with_agent(agent_info_cache,
                                          tasks.items[idx + 1].desc, "assigned", net)
         IN /\ result' = r.result
            /\ returns' = Append(returns, r.result)
            /\ agent_calls' = agent_calls \o r.calls
            /\ agent_info_cache' = r.cache
    /\ pc' = "job_complete"
    /\ UNCHANGED othersOfOrch
    /\ UNCHANGED <<ctx, openai_client, agent_counter, user_message, is_blocking, tasks,
                   idx, events, posts, webhook_calls, webhook_failed, called, raisedAt>>

\* a variant that reports the result of the first sub-task for every job
JobArtifact_first(task_id, i, res) ==
    [artifactId |-> "uuid4", kind |-> "data",
     jobId |-> JobLevelId(task_id, i), result |-> returns[1]]

\* the artifact of a job completion webhook
JobArtifact(task_id, i, res) ==
    [artifactId |-> "uuid4", kind |-> "data",
     jobId |-> JobLevelId(task_id, i), result |-> res]

\* a variant that reports a job as 'failed' when the agent call returned an
\* error text
JobComplete_failedstate ==
    /\ pc = "job_complete"
    /\ \E outcome \in WebhookOutcomes :
         SendWebhook(TaskData(JobLevelId(ctx.task_id, idx),
                              IF result.kind \in {"text", "dump"} THEN "completed" ELSE "failed",
                              "Completed", TitleOf(tasks.items[idx + 1], idx),
                              << JobArtifact(ctx.task_id, idx, result) >>), outcome)
    /\ idx' = idx + 1
    /\ pc' = "job_loop"
    /\ UNCHANGED othersOfOrch
    /\ UNCHANGED <<ctx, openai_client, agent_counter, agent_info_cache, user_message,
                   is_blocking, tasks, result, events, agent_calls, returns, called,
                   raisedAt>>

\* _execute_jobs_async, lines 303-319: the 'completed' webhook of job idx
JobComplete ==
    /\ pc = "job_complete"
    /\ \E outcome \in WebhookOutcomes :
         SendWebhook(TaskData(JobLevelId(ctx.task_id, idx), "completed",
                              "Completed", TitleOf(tasks.items[idx + 1], idx),
                              << JobArtifact(ctx.task_id, idx, result) >>), outcome)
    /\ idx' = idx + 1
    /\ pc' = "job_loop"
    /\ UNCHANGED othersOfOrch
    /\ UNCHANGED <<ctx, openai_client, agent_counter, agent_info_cache, user_message,
                   is_blocking, tasks, result, events, agent_calls, returns, called,
                   raisedAt>>

\* _execute_jobs_async, lines 322-331: the final webhook after the loop
JobsFinish ==
    /\ pc = "job_loop"
    /\ tasks.kind = "list"
    /\ idx = Len(tasks.items)
    /\ \E outcome \in WebhookOutcomes :
         SendWebhook(TaskData(TaskLevelId(ctx.task_id), "completed",
                              "Successfully executed jobs",
                              [text |-> "", n |-> Len(tasks.items)], << >>), outcome)
    /\ pc' = "jobs_after"
    /\ UNCHANGED othersOfOrch
    /\ UNCHANGED <<ctx, openai_client, agent_counter, agent_info_cache, user_message,
                   is_blocking, tasks, idx, result, events, agent_calls, returns,
                   called, raisedAt>>

\* a variant that returns after job execution without a status update
JobsCompleted_silent ==
    /\ pc = "jobs_after"
    /\ pc' = "done"
    /\ UNCHANGED othersOfOrch
    /\ UNCHANGED <<ctx, openai_client, agent_counter, agent_info_cache, user_message,
                   is_blocking, tasks, idx, result, events, posts, webhook_calls,
                   webhook_failed, agent_calls, returns, called, raisedAt>>

\* execute, lines 94-99: the final 'completed' status after job execution
JobsCompleted ==
    /\ pc = "jobs_after"
    /\ events' = Append(events, StatusEvent(ctx, "completed", TRUE))
    /\ pc' = "done"
    /\ UNCHANGED othersOfOrch
    /\ UNCHANGED <<ctx, openai_client, agent_counter, agent_info_cache, user_message,
                   is_blocking, tasks, idx, result, posts, webhook_calls,
                   webhook_failed, agent_calls, returns, called, raisedAt>>

\* _generate_tasks_blocking: the artifact with final=True, or on an
\* exception a 'failed' status before the exception is raised again
GenerateBlocking ==
    /\ pc = "gen_blocking"
    /\ \E api \in ApiOutcomes :
         LET r == generate_jobs_with_openai(openai_client, user_message, api, agent_counter)
         IN /\ agent_counter' = r.agent_counter
            /\ IF r.raised
               THEN /\ events' = Append(events, StatusEvent(ctx, "failed", TRUE))
                    /\ Raise("generate")
               ELSE /\ events' = Append(events,
                          ArtifactEvent(ctx, DataParts(r.jobs, user_message, ctx), TRUE))
                    /\ pc' = "done"
                    /\ UNCHANGED raisedAt
    /\ UNCHANGED othersOfOrch
    /\ UNCHANGED <<ctx, openai_client, agent_info_cache, user_message, is_blocking,
                   tasks, idx, result, posts, webhook_calls, webhook_failed,
                   agent_calls, returns, called>>

\* a variant that enqueues the final status before the artifact
GenerateResponse_statusfirst ==
    /\ pc = "gen_response"
    /\ \E api \in ApiOutcomes :
         LET r == generate_jobs_with_openai(openai_client, user_message, api, agent_counter)
         IN /\ agent_counter' = r.agent_counter
            /\ IF r.raised
               THEN /\ Raise("generate")
                    /\ UNCHANGED events
               ELSE /\ events' = events \o
                          << StatusEvent(ctx, "completed", TRUE),
                             ArtifactEvent(ctx, DataParts(r.jobs, user_message, ctx), FALSE),
                             TextMessageEvent(Len(r.jobs)) >>
                    /\ pc' = "done"
                    /\ UNCHANGED raisedAt
    /\ UNCHANGED othersOfOrch
    /\ UNCHANGED <<ctx, openai_client, agent_info_cache, user_message, is_blocking,
                   tasks, idx, result, posts, webhook_calls, webhook_failed,
                   agent_calls, returns, called>>

\* _generate_tasks_response: the artifact with final=False, the text
\* message and the final 'completed' status; an exception is raised again
GenerateResponse ==
    /\ pc = "gen_response"
    /\ \E api \in ApiOutcomes :
         LET r == generate_jobs_with_openai(openai_client, user_message, api, agent_counter)
         IN /\ agent_counter' = r.agent_counter
            /\ IF r.raised
               THEN /\ Raise("generate")
                    /\ UNCHANGED events
               ELSE /\ events' = events \o
                          << ArtifactEvent(ctx, DataParts(r.jobs, user_message, ctx), FALSE),
                             TextMessageEvent(Len(r.jobs)),
                             StatusEvent(ctx, "completed", TRUE) >>
                    /\ pc' = "done"
                    /\ UNCHANGED raisedAt
    /\ UNCHANGED othersOfOrch
    /\ UNCHANGED <<ctx, openai_client, agent_info_cache, user_message, is_blocking,
                   tasks, idx, result, posts, webhook_calls, webhook_failed,
                   agent_calls, returns, called>>

\* a variant whose handler swallows the exception without a status update
ExecuteExcept_silent ==
    /\ pc = "except"
    /\ pc' = "done"
    /\ UNCHANGED othersOfOrch
    /\ UNCHANGED <<ctx, openai_client, agent_counter, agent_info_cache, user_message,
                   is_blocking, tasks, idx, result, events, posts, webhook_calls,
                   webhook_failed, agent_calls, returns, called, raisedAt>>

\* execute, lines 110-118: the handler of every exception enqueues 'failed'
ExecuteExcept ==
    /\ pc = "except"
    /\ events' = Append(events, StatusEvent(ctx, "failed", TRUE))
    /\ pc' = "done"
    /\ UNCHANGED othersOfOrch
    /\ UNCHANGED <<ctx, openai_client, agent_counter, agent_info_cache, user_message,
                   is_blocking, tasks, idx, result, posts, webhook_calls,
                   webhook_failed, agent_calls, returns, called, raisedAt>>

\* ------------------------------------------------------------------------
\* The model-backed executors: Host, Analyzer, Trending, Market Analysis
\* ------------------------------------------------------------------------

ModelAgents == {"host", "analyzer", "trending", "market_analysis"}

\* the progress texts stream() yields before it calls the model
WorkingTexts(agent) ==
    CASE agent = "host"     -> << "Analyzing your request and planning the workflow..." >>
      [] agent = "analyzer" -> << "Analyzing trend data..." >>
      [] agent = "trending" -> << "Searching for trending topics..." >>
      [] OTHER              -> << "Starting financial market analysis...",
                                  "Performing market research and analysis..." >>

\* the name the executor gives its artifact
ArtifactName(agent) ==
    CASE agent = "host"     -> "orchestration_results"
      [] agent = "analyzer" -> "analysis_results"
      [] agent = "trending" -> "trending_results"
      [] OTHER              -> "market_analysis_report"

\* what the model call (agent.run, manager.run) can do: return an answer or
\* raise an exception with a text
Answers == {"answer-1", "answer-2"}
Errors  == {"rate limit", "bad key"}

ModelOutcomes ==
    {[called |-> TRUE, ok |-> TRUE, text |-> a] : a \in Answers}
    \cup {[called |-> TRUE, ok |-> FALSE, text |-> e] : e \in Errors}

NotCalled == [called |-> FALSE, ok |-> FALSE, text |-> ""]

\* an item yielded by stream(); content is prefix + body
StreamItem(is_task_complete, require_user_input, prefix, body) ==
    [is_task_complete |-> is_task_complete, require_user_input |-> require_user_input,
     content |-> [prefix |-> prefix, body |-> body]]

\* HostAgent.stream (and the three like it): item number n (from 1) of the
\* generator, where model is the outcome of the model call
stream(agent, n, model) ==
    IF n <= Len(WorkingTexts(agent))
    THEN StreamItem(FALSE, FALSE, "", WorkingTexts(agent)[n])
    ELSE IF model.ok
    THEN StreamItem(TRUE, FALSE, "", model.text)
    ELSE StreamItem(FALSE, TRUE, "Error processing request: ", model.text)

\* events the executors enqueue, directly or through TaskUpdater
AgentEvent(kind, state, final, content, name) ==
    [kind |-> kind, state |-> state, final |-> final, content |-> content, name |-> name]

NoContent == [prefix |-> "", body |-> ""]

\* a variant that reports the error without final=True
HandleItem_notfinal(agent, item) ==
    IF ~item.is_task_complete /\ ~item.require_user_input
    THEN [events |-> << AgentEvent("status", "working", FALSE, item.content, "") >>,
          break |-> FALSE]
    ELSE IF item.require_user_input
    THEN [events |-> << AgentEvent("status", "input_required", FALSE, item.content, "") >>,
          break |-> FALSE]
    ELSE [events |-> << AgentEvent("artifact", "", FALSE, item.content, ArtifactName(agent)),
                        AgentEvent("status", "completed", TRUE, NoContent, "") >>,
          break |-> TRUE]

\* the body of the  async for  of HostAgentExecutor.execute (and the three
\* like it): the events one item leads to and whether the loop breaks
HandleItem(agent, item) ==
    IF ~item.is_task_complete /\ ~item.require_user_input
    THEN [events |-> << AgentEvent("status", "working", FALSE, item.content, "") >>,
          break |-> FALSE]
    ELSE IF item.require_user_input
    THEN [events |-> << AgentEvent("status", "input_required", TRUE, item.content, "") >>,
          break |-> TRUE]
    ELSE [events |-> << AgentEvent("artifact", "", FALSE, item.content, ArtifactName(agent)),
                        AgentEvent("status", "completed", TRUE, NoContent, "") >>,
          break |-> TRUE]

AgentContexts ==
    [task_id : {"task-1", "task-2"}, context_id : {"ctx-1"}, has_task : BOOLEAN]

AgentInit ==
    /\ x_agent \in ModelAgents
    /\ x_context \in AgentContexts
    /\ x_pc = "start"
    /\ x_yielded = 0
    /\ x_model = NotCalled
    /\ x_events = << >>

\* execute up to the loop: a new task is enqueued when the context has none
AgentBegin ==
    /\ x_pc = "start"
    /\ x_events' = IF x_context.has_task THEN x_events
                   ELSE Append(x_events, AgentEvent("task", "submitted", FALSE, NoContent, ""))
    /\ x_pc' = "stream"
    /\ UNCHANGED <<x_agent, x_context, x_yielded, x_model>>
    /\ UNCHANGED othersOfAgents

\* stream() yields a progress item and the executor reports it
AgentProgress ==
    /\ x_pc = "stream"
    /\ x_yielded < Len(WorkingTexts(x_agent))
    /\ LET h == HandleItem(x_agent, stream(x_agent, x_yielded + 1, x_model)) IN
       /\ x_events' = x_events \o h.events
       /\ x_pc' = IF h.break THEN "done" ELSE "stream"
    /\ x_yielded' = x_yielded + 1
    /\ UNCHANGED <<x_agent, x_context, x_model>>
    /\ UNCHANGED othersOfAgents

\* stream() calls the model and yields its last item; the executor reports it
AgentModelCall ==
    /\ x_pc = "stream"
    /\ x_yielded = Len(WorkingTexts(x_agent))
    /\ \E model \in ModelOutcomes :
         LET h == HandleItem(x_agent, stream(x_agent, x_yielded + 1, model)) IN
         /\ x_model' = model
         /\ x_events' = x_events \o h.events
         \* the generator is exhausted after this item
         /\ x_pc' = "done"
    /\ x_yielded' = x_yielded + 1
    /\ UNCHANGED <<x_agent, x_context>>
    /\ UNCHANGED othersOfAgents

\* ------------------------------------------------------------------------
\* Repeated calls of remote agents: Orchestrator._call_a2a_agent and
\* A2ASimpleClient.create_task, each with the cache of its own instance
\* ------------------------------------------------------------------------

\* most calls made in one run of the model
MaxCalls == 3

\* A2ASimpleClient.available_agents as set in __init__
client_available_agents ==
    [a \in AgentNames |->
        CASE a = "trending"        -> "http://localhost:10020"
          [] a = "analyzer"        -> "http://localhost:10021"
          [] a = "host"            -> "http://localhost:10022"
          [] a = "market_analysis" -> "http://localhost:10023"]

ClientUrls == {client_available_agents[a] : a \in DOMAIN client_available_agents}

ClientEmptyCache == [u \in ClientUrls |-> "none"]

\* for the client send_message has two more outcomes of their own text
ClientNetOutcomes ==
    NetOutcomes
    \cup {[card |-> "good", send |-> s, reply |-> "reply-a"] : s \in {"connect", "timeout"}}

\* A2ASimpleClient.create_task
create_task(cache, agent_url, message, net) ==
    IF ~CacheHit(cache, agent_url) /\ net.card \in {"status", "connect", "timeout", "exc"}
    THEN [cache   |-> cache,
          result  |-> ResultString(
                        CASE net.card = "status"  -> "card_status"
                          [] net.card = "connect" -> "cannot_connect"
                          [] net.card = "timeout" -> "connect_timeout"
                          [] OTHER                -> "connect_unexpected",
                        agent_url, "", << >>),
          fetched |-> TRUE, sent |-> FALSE]
    ELSE
    LET cache1 == IF CacheHit(cache, agent_url) THEN cache
                  ELSE [cache EXCEPT ![agent_url] = net.card]
        fetched == ~CacheHit(cache, agent_url)
    IN  IF cache1[agent_url] # "good"
        THEN [cache |-> cache1,
              result |-> ResultString("create_failed", agent_url, "", << >>),
              fetched |-> fetched, sent |-> FALSE]
        ELSE [cache |-> cache1,
              result |-> CASE net.send = "connect" -> ResultString("cannot_connect", agent_url, "", << >>)
                           [] net.send = "timeout" -> ResultString("send_timeout", agent_url, "", << >>)
                           [] net.send = "exc"     -> ResultString("send_unexpected", agent_url, "", << >>)
                           [] net.send = "text"    -> ResultString("text", "", net.reply, << >>)
                           [] OTHER                -> ResultString("dump", "", "", << >>),
              fetched |-> fetched, sent |-> TRUE]

CallTargets == ({"orchestrator"} \X AgentUrls) \cup ({"client"} \X ClientUrls)

TotalCalls ==
    LET RECURSIVE Sum(_)
        Sum(S) == IF S = {} THEN 0
                  ELSE LET t == CHOOSE t \in S : TRUE IN k_calls[t] + Sum(S \ {t})
    IN Sum(CallTargets)

CallInit ==
    /\ k_orch_cache = EmptyCache
    /\ k_client_cache = ClientEmptyCache
    /\ k_calls = [t \in CallTargets |-> 0]
    /\ k_fetches = [t \in CallTargets |-> 0]
    /\ k_stored_at = [t \in CallTargets |-> 0]
    /\ k_last = [who |-> "", url |-> "", fetched |-> FALSE, result |-> NoResult]

\* bookkeeping of one call to target t that returned r from cache before
Recorded(t, before, r) ==
    /\ k_calls' = [k_calls EXCEPT ![t] = @ + 1]
    /\ k_fetches' = [k_fetches EXCEPT ![t] = IF r.fetched THEN @ + 1 ELSE @]
    /\ k_stored_at' =
         [k_stored_at EXCEPT ![t] =
            IF @ = 0 /\ r.cache[t[2]] # before[t[2]] /\ r.cache[t[2]] # "null"
            THEN k_calls[t] + 1 ELSE @]
    /\ k_last' = [who |-> t[1], url |-> t[2], fetched |-> r.fetched, result |-> r.result]

\* one call of Orchestrator._call_a2a_agent
OrchestratorAgentCall ==
    /\ TotalCalls < MaxCalls
    /\ \E agent_url \in AgentUrls, net \in NetOutcomes :
         LET r == call_a2a_agent(k_orch_cache, agent_url, DescPlain, net) IN
         /\ k_orch_cache' = r.cache
         /\ Recorded(<<"orchestrator", agent_url>>, k_orch_cache, r)
    /\ UNCHANGED k_client_cache
    /\ UNCHANGED othersOfCalls

\* one call of A2ASimpleClient.create_task
ClientCreateTask ==
    /\ TotalCalls < MaxCalls
    /\ \E agent_url \in ClientUrls, net \in ClientNetOutcomes :
         LET r == create_task(k_client_cache, agent_url, DescPlain, net) IN
         /\ k_client_cache' = r.cache
         /\ Recorded(<<"client", agent_url>>, k_client_cache, r)
    /\ UNCHANGED k_orch_cache
    /\ UNCHANGED othersOfCalls

\* ------------------------------------------------------------------------
\* TaskAgentExecutor (task_agent/agent_executor.py): the template generators
\* ------------------------------------------------------------------------

\* keyword list of _generate_jobs, line 846
WebKeywords ==
    << <<"w","e","b"," ","a","p","p">>,
       <<"w","e","b","s","i","t","e">>,
       <<"w","e","b"," ","a","p","p","l","i","c","a","t","i","o","n">>,
       <<"f","r","o","n","t","e","n","d">>,
       <<"r","e","a","c","t">>,
       <<"n","e","x","t",".","j","s">> >>

\* keyword list of _generate_jobs, line 849
ScrapingKeywords ==
    << <<"s","c","r","a","p","i","n","g">>,
       <<"s","c","r","a","p","e">>,
       <<"d","a","t","a"," ","e","x","t","r","a","c","t","i","o","n">>,
       <<"w","e","b"," ","s","c","r","a","p","i","n","g">> >>

\* keyword list of _generate_jobs, line 852
ApiKeywords ==
    << <<"a","p","i">>,
       <<"b","a","c","k","e","n","d">>,
       <<"s","e","r","v","e","r">>,
       <<"d","a","t","a","b","a","s","e">>,
       <<"r","e","s","t">>,
       <<"g","r","a","p","h","q","l">> >>

\* keyword list of _generate_jobs, line 855
MobileKeywords ==
    << <<"m","o","b","i","l","e">>,
       <<"a","p","p">>,
       <<"i","o","s">>,
       <<"a","n","d","r","o","i","d">>,
       <<"r","e","a","c","t"," ","n","a","t","i","v","e">> >>

\* keyword list of _generate_jobs, line 858
AiKeywords ==
    << <<"a","i">>,
       <<"m","a","c","h","i","n","e"," ","l","e","a","r","n","i","n","g">>,
       <<"m","l">>,
       <<"d","a","t","a"," ","s","c","i","e","n","c","e">>,
       <<"a","n","a","l","y","t","i","c","s">> >>

\* keyword list of _generate_jobs, line 861
EcommerceKeywords ==
    << <<"e","-","c","o","m","m","e","r","c","e">>,
       <<"s","h","o","p">>,
       <<"s","t","o","r","e">>,
       <<"p","a","y","m","e","n","t">>,
       <<"c","h","e","c","k","o","u","t">> >>

\* keyword list of _generate_jobs, line 864
TravelKeywords ==
    << <<"t","r","i","p">>,
       <<"t","r","a","v","e","l">>,
       <<"i","t","i","n","e","r","a","r","y">>,
       <<"v","a","c","a","t","i","o","n">>,
       <<"j","o","u","r","n","e","y">>,
       <<"p","l","a","n">>,
       <<"j","a","p","a","n">>,
       <<"d","e","s","t","i","n","a","t","i","o","n">> >>

\* the jobs of _create_web_project_jobs: title, text of the description before
\* " for: {user_message}", and name of the assigned agent
WebTemplate ==
    << [title |-> "Frontend Development & UI Design",
        prefix |-> "Create responsive user interface",
        agent |-> "Frontend Specialist"],
       [title |-> "Backend API & Authentication",
        prefix |-> "Build secure REST API",
        agent |-> "Backend Engineer"],
       [title |-> "Database Architecture & Optimization",
        prefix |-> "Design scalable database schema",
        agent |-> "Database Architect"],
       [title |-> "Testing & Quality Assurance",
        prefix |-> "Implement comprehensive testing suite",
        agent |-> "QA Engineer"] >>

\* the jobs of _create_scraping_jobs: title, text of the description before
\* " for: {user_message}", and name of the assigned agent
ScrapingTemplate ==
    << [title |-> "Web Scraper Development",
        prefix |-> "Build robust web scraper",
        agent |-> "Scraping Specialist"],
       [title |-> "Data Processing & Storage",
        prefix |-> "Process and store scraped data",
        agent |-> "Data Engineer"] >>

\* the jobs of _create_api_jobs: title, text of the description before
\* " for: {user_message}", and name of the assigned agent
ApiTemplate ==
    << [title |-> "API Design & Architecture",
        prefix |-> "Design RESTful API",
        agent |-> "API Architect"],
       [title |-> "API Implementation & Testing",
        prefix |-> "Implement and test API",
        agent |-> "Backend Developer"] >>

\* the jobs of _create_intelligent_generic_jobs: title, text of the description before
\* " for: {user_message}", and name of the assigned agent
GenericTemplate ==
    << [title |-> "Requirements Analysis & Planning",
        prefix |-> "Analyze and document requirements",
        agent |-> "Project Analyst"],
       [title |-> "Technical Implementation",
        prefix |-> "Implement core functionality",
        agent |-> "Full-Stack Developer"],
       [title |-> "Testing & Deployment",
        prefix |-> "Test and deploy solution",
        agent |-> "DevOps Engineer"] >>

\* the jobs of _create_mobile_jobs: title, text of the description before
\* " for: {user_message}", and name of the assigned agent
MobileTemplate ==
    << [title |-> "Mobile App UI/UX Design",
        prefix |-> "Design mobile interface",
        agent |-> "Mobile UI/UX Designer"],
       [title |-> "Cross-Platform Development",
        prefix |-> "Develop mobile application",
        agent |-> "Mobile Developer"] >>

\* the jobs of _create_ai_jobs: title, text of the description before
\* " for: {user_message}", and name of the assigned agent
AiTemplate ==
    << [title |-> "Data Analysis & Model Design",
        prefix |-> "Design AI/ML solution",
        agent |-> "Data Scientist"],
       [title |-> "ML Pipeline & Integration",
        prefix |-> "Implement ML pipeline",
        agent |-> "ML Engineer"] >>

\* the jobs of _create_ecommerce_jobs: title, text of the description before
\* " for: {user_message}", and name of the assigned agent
EcommerceTemplate ==
    << [title |-> "E-commerce Platform Development",
        prefix |-> "Build e-commerce platform",
        agent |-> "E-commerce Developer"],
       [title |-> "Payment & Security Integration",
        prefix |-> "Implement secure payment system",
        agent |-> "Payment Security Specialist"] >>

\* the jobs of _create_travel_jobs: title, text of the description before
\* " for: {user_message}", and name of the assigned agent
TravelTemplate ==
    << [title |-> "Destination Research & Planning",
        prefix |-> "Research destinations and create detailed itinerary",
        agent |-> "Travel Planning Specialist"],
       [title |-> "Accommodation & Transportation",
        prefix |-> "Arrange accommodations and transportation",
        agent |-> "Travel Logistics Coordinator"],
       [title |-> "Daily Activity Planning",
        prefix |-> "Create detailed daily activities and experiences",
        agent |-> "Experience Curator"],
       [title |-> "Budget & Documentation",
        prefix |-> "Manage budget and travel documentation",
        agent |-> "Travel Documentation Specialist"] >>

\* most calls of _generate_jobs made in one run of the model
MaxGenerations == 3

\* user messages the generators are called with
MsgWebsite   == <<"W","e","b","s","i","t","e">>
MsgWebApp    == <<"w","e","b"," ","a","p","p">>
MsgScrape    == <<"s","c","r","a","p","e">>
MsgRestApi   == <<"R","E","S","T"," ","a","p","i">>
MsgIos       == <<"i","o","s">>
MsgMl        == <<"m","l">>
MsgShop      == <<"s","h","o","p">>
MsgTrip      == <<"t","r","i","p">>
MsgSpainTrip == <<"S","p","a","i","n"," ","t","r","i","p">>
MsgHello     == <<"h","e","l","l","o">>

GenMessages ==
    {MsgWebsite, MsgWebApp, MsgScrape, MsgRestApi, MsgIos, MsgMl, MsgShop, MsgTrip, MsgSpainTrip, MsgHello}

\* a variant that returns the next id without storing the counter
next_job_id_notstored(counter) == [counter |-> counter, id |-> counter + 1]

\* TaskAgentExecutor._next_job_id: the counter after the call and the id
\* returned
next_job_id(counter) == [counter |-> counter + 1, id |-> counter + 1]

\* TaskAgentExecutor._next_agent_id
next_agent_id(counter) == [counter |-> counter + 1, id |-> counter + 1]

\* the list literal of a _create_*_jobs method, evaluated left to right:
\* for each job the next job id, then the next agent id
RECURSIVE create_jobs(_, _, _, _)
create_jobs(template, message, jc, ac) ==
    IF template = << >> THEN [jobs |-> << >>, job_counter |-> jc, agent_counter |-> ac]
    ELSE
    LET j == next_job_id(jc)
        a == next_agent_id(ac)
        job == [id |-> j.id,
                title |-> Head(template).title,
                description |-> [prefix |-> Head(template).prefix, message |-> message],
                status |-> "submitted",
                assignedAgent |-> [id |-> a.id, name |-> Head(template).agent]]
        rest == create_jobs(Tail(template), message, j.counter, a.counter)
    IN [jobs |-> <<job>> \o rest.jobs,
        job_counter |-> rest.job_counter,
        agent_counter |-> rest.agent_counter]

\* a variant that tests the travel keywords first
TemplateFor_travelfirst(message) ==
    LET message_lower == Lower(message) IN
    IF AnyKeywordIn(TravelKeywords, message_lower) THEN TravelTemplate
    ELSE IF AnyKeywordIn(WebKeywords, message_lower) THEN WebTemplate
    ELSE IF AnyKeywordIn(ScrapingKeywords, message_lower) THEN ScrapingTemplate
    ELSE IF AnyKeywordIn(ApiKeywords, message_lower) THEN ApiTemplate
    ELSE IF AnyKeywordIn(MobileKeywords, message_lower) THEN MobileTemplate
    ELSE IF AnyKeywordIn(AiKeywords, message_lower) THEN AiTemplate
    ELSE IF AnyKeywordIn(EcommerceKeywords, message_lower) THEN EcommerceTemplate
    ELSE GenericTemplate

\* the template TaskAgentExecutor._generate_jobs picks for a message
TemplateFor(message) ==
    LET message_lower == Lower(message) IN
    IF AnyKeywordIn(WebKeywords, message_lower) THEN WebTemplate
    ELSE IF AnyKeywordIn(ScrapingKeywords, message_lower) THEN ScrapingTemplate
    ELSE IF AnyKeywordIn(ApiKeywords, message_lower) THEN ApiTemplate
    ELSE IF AnyKeywordIn(MobileKeywords, message_lower) THEN MobileTemplate
    ELSE IF AnyKeywordIn(AiKeywords, message_lower) THEN AiTemplate
    ELSE IF AnyKeywordIn(EcommerceKeywords, message_lower) THEN EcommerceTemplate
    ELSE IF AnyKeywordIn(TravelKeywords, message_lower) THEN TravelTemplate
    ELSE GenericTemplate

\* TaskAgentExecutor._generate_jobs
generate_jobs(message, jc, ac) ==
    create_jobs(TemplateFor(message), message, jc, ac)

NoGeneration == [message |-> << >>, jc |-> -1, ac |-> -1, jobs |-> << >>]

\* TaskAgentExecutor.__init__
GenInit ==
    /\ job_counter = 0
    /\ g_agent_counter = 0
    /\ tasks_store = {}
    /\ g_calls = 0
    /\ g_prev = NoGeneration
    /\ g_last = NoGeneration

\* one call of _generate_jobs on the executor
GenerateJobs ==
    /\ g_calls < MaxGenerations
    /\ \E message \in GenMessages :
         LET r == generate_jobs(message, job_counter, g_agent_counter) IN
         /\ job_counter' = r.job_counter
         /\ g_agent_counter' = r.agent_counter
         /\ g_last' = [message |-> message, jc |-> job_counter,
                       ac |-> g_agent_counter, jobs |-> r.jobs]
    /\ g_prev' = g_last
    /\ g_calls' = g_calls + 1
    /\ UNCHANGED tasks_store
    /\ UNCHANGED othersOfGeneration

\* ------------------------------------------------------------------------
\* CanvasAgentExecutor (canvas_agent/agent_executor.py)
\* ------------------------------------------------------------------------

\* most execute calls made on one executor in one run of the model
MaxCanvasRuns == 2

\* canvas_keywords of _is_canvas_request
CanvasKeywords ==
    << <<"c","a","n","v","a","s">>,
       <<"c","r","e","a","t","e"," ","c","a","n","v","a","s">>,
       <<"t","a","s","k"," ","b","r","e","a","k","d","o","w","n">>,
       <<"d","e","c","o","m","p","o","s","e">>,
       <<"p","l","a","n">>,
       <<"p","r","o","j","e","c","t">>,
       <<"b","u","i","l","d">>,
       <<"d","e","v","e","l","o","p">>,
       <<"c","r","e","a","t","e">> >>

\* CanvasAgentExecutor._is_canvas_request
is_canvas_request(message) == AnyKeywordIn(CanvasKeywords, Lower(message))

KwWeb      == <<"w","e","b">>
KwWebsite  == <<"w","e","b","s","i","t","e">>
KwScraping == <<"s","c","r","a","p","i","n","g">>
KwScrape   == <<"s","c","r","a","p","e">>
KwApi      == <<"a","p","i">>

\* the task lists of the _create_*_tasks methods: title and agent name
CanvasWebTasks ==
    << [title |-> "Frontend Development", agent |-> "Frontend Specialist"],
       [title |-> "Backend API Development", agent |-> "Backend Engineer"],
       [title |-> "Database Design", agent |-> "Database Architect"] >>

CanvasScrapingTasks ==
    << [title |-> "Web Scraper Development", agent |-> "Scraping Specialist"],
       [title |-> "Data Processing Pipeline", agent |-> "Data Engineer"] >>

CanvasApiTasks ==
    << [title |-> "API Design & Documentation", agent |-> "API Architect"] >>

CanvasGenericTasks ==
    << [title |-> "Project Analysis", agent |-> "Project Analyst"],
       [title |-> "Implementation", agent |-> "Development Specialist"] >>

\* CanvasAgentExecutor._generate_fake_tasks: the list it picks and the
\* tasks with the ids the two counters give them
generate_fake_tasks(message, tc, ac) ==
    LET lower == Lower(message)
        template ==
            IF Contains(KwWeb, lower) \/ Contains(KwWebsite, lower) THEN CanvasWebTasks
            ELSE IF Contains(KwScraping, lower) \/ Contains(KwScrape, lower)
            THEN CanvasScrapingTasks
            ELSE IF Contains(KwApi, lower) THEN CanvasApiTasks
            ELSE CanvasGenericTasks
    IN [tasks |-> [k \in 1..Len(template) |->
                      [id |-> tc + k, title |-> template[k].title,
                       status |-> "pending",
                       agent |-> [id |-> ac + k, name |-> template[k].agent]]],
        task_counter |-> tc + Len(template),
        agent_counter |-> ac + Len(template)]

\* CanvasAgentExecutor._extract_project_title
extract_project_title(message) ==
    LET lower == Lower(message) IN
    IF Contains(KwWeb, lower) THEN "Web Application Development"
    ELSE IF Contains(KwScraping, lower) THEN "Web Scraping System"
    ELSE IF Contains(KwApi, lower) THEN "API Development Project"
    ELSE "Project Planning Canvas"

\* str.strip() on a string of the model: blanks are " "
RECURSIVE LStripChars(_)
LStripChars(s) == IF s # << >> /\ Head(s) = " " THEN LStripChars(Tail(s)) ELSE s

RECURSIVE RStripChars(_)
RStripChars(s) ==
    IF s # << >> /\ s[Len(s)] = " " THEN RStripChars(SubSeq(s, 1, Len(s) - 1)) ELSE s

StripChars(s) == RStripChars(LStripChars(s))

\* a message part of the canvas request.  ty "notext": part.root has no
\* text; "empty": text is ""; "int": text is a number; "list": text is a
\* list; "str": text is the string segs[1] + "Current request:" + segs[2]
\* + ..., so a text without the marker has one segment
CanvasPart(ty, segs) == [ty |-> ty, segs |-> segs]

CanvasValue(ty, s) == [raised |-> FALSE, ty |-> ty, s |-> s]

\* CanvasAgentExecutor._extract_user_message: the text of the first part
\* with a truthy text, cut to what follows the last "Current request:".
\* "Current request:" in text  raises for a number; a list is returned as
\* it is.
RECURSIVE CanvasExtractFromParts(_)
CanvasExtractFromParts(parts) ==
    IF parts = << >> THEN CanvasValue("str", << >>)
    ELSE IF Head(parts).ty \in {"notext", "empty"} THEN CanvasExtractFromParts(Tail(parts))
    ELSE IF Head(parts).ty = "int" THEN [raised |-> TRUE, ty |-> "int", s |-> << >>]
    ELSE IF Head(parts).ty = "list" THEN CanvasValue("list", << >>)
    ELSE LET segs == Head(parts).segs IN
         IF Len(segs) > 1 THEN CanvasValue("str", StripChars(segs[Len(segs)]))
         ELSE CanvasValue("str", segs[1])

canvas_extract_user_message(context) ==
    IF context.hasMessage THEN CanvasExtractFromParts(context.parts)
    ELSE CanvasValue("str", << >>)

\* events of the canvas executor.  kind "status": state, final; kind
\* "artifact": artifactId (prefix and toolcall id), the data's type,
\* toolcall id, status and task count or task list, lastChunk; kind
\* "message": the default text
CanvasStatus(context, state, final) ==
    [kind |-> "status", taskId |-> context.task_id, contextId |-> context.context_id,
     state |-> state, final |-> final, type |-> "", artifactId |-> <<"", "">>,
     toolcall |-> "", title |-> "", tasks |-> << >>, count |-> 0, lastChunk |-> FALSE]

CanvasInitiated(context, toolcall_id, title, task_list) ==
    [kind |-> "artifact", taskId |-> context.task_id, contextId |-> context.context_id,
     state |-> "initiated", final |-> FALSE, type |-> "toolcall_initiated",
     artifactId |-> <<"toolcall-", toolcall_id>>,
     toolcall |-> toolcall_id, title |-> title, tasks |-> task_list, count |-> 0,
     lastChunk |-> FALSE]

\* a variant that draws a new id for the completion event
CanvasCompleted_newid(context, toolcall_id, count) ==
    [kind |-> "artifact", taskId |-> context.task_id, contextId |-> context.context_id,
     state |-> "completed", final |-> FALSE, type |-> "toolcall_completed",
     artifactId |-> <<"toolcall-result-", "uuid-new">>,
     toolcall |-> "uuid-new", title |-> "", tasks |-> << >>, count |-> count,
     lastChunk |-> TRUE]

CanvasCompleted(context, toolcall_id, count) ==
    [kind |-> "artifact", taskId |-> context.task_id, contextId |-> context.context_id,
     state |-> "completed", final |-> FALSE, type |-> "toolcall_completed",
     artifactId |-> <<"toolcall-result-", toolcall_id>>,
     toolcall |-> toolcall_id, title |-> "", tasks |-> << >>, count |-> count,
     lastChunk |-> TRUE]

\* new_agent_text_message(response_text): no task id, no context id
CanvasDefaultMessage ==
    [kind |-> "message", taskId |-> "", contextId |-> "",
     state |-> "", final |-> FALSE, type |-> "default_text", artifactId |-> <<"", "">>,
     toolcall |-> "", title |-> "", tasks |-> << >>, count |-> 0, lastChunk |-> FALSE]

\* texts of canvas requests
TextBuildWeb   == <<"b","u","i","l","d"," ","w","e","b">>
TextScrapePlan == <<"s","c","r","a","p","e"," ","p","l","a","n">>
TextCreateApi  == <<"C","r","e","a","t","e"," ","a","p","i">>
TextHello      == <<"h","e","l","l","o">>
TextCreate     == <<"c","r","e","a","t","e"," ">>
TextHi         == <<" ","h","i"," ">>
TextDevelop    == <<" ","d","e","v","e","l","o","p">>

CanvasPartLists ==
    { << CanvasPart("str", << TextBuildWeb >>) >>,
      << CanvasPart("str", << TextScrapePlan >>) >>,
      << CanvasPart("str", << TextCreateApi >>) >>,
      << CanvasPart("str", << TextHello >>) >>,
      << CanvasPart("str", << TextCreate, TextHi >>) >>,
      << CanvasPart("str", << TextHello, TextCreate, TextDevelop >>) >>,
      << CanvasPart("notext", << >>), CanvasPart("empty", << >>),
         CanvasPart("str", << TextBuildWeb >>) >>,
      << CanvasPart("str", << TextHello >>), CanvasPart("str", << TextBuildWeb >>) >>,
      << CanvasPart("empty", << >>) >>,
      << CanvasPart("int", << >>) >>,
      << CanvasPart("list", << >>) >>,
      << >> }

CanvasRequests ==
    {[task_id |-> "task-1", context_id |-> "ctx-1", hasMessage |-> TRUE, parts |-> p] :
        p \in CanvasPartLists}
    \cup {[task_id |-> "task-1", context_id |-> "ctx-1", hasMessage |-> FALSE, parts |-> << >>]}

\* values of str(uuid.uuid4())
Uuids == {"uuid-a", "uuid-b"}

NoCanvasRequest == [task_id |-> "", context_id |-> "", hasMessage |-> FALSE, parts |-> << >>]

\* CanvasAgentExecutor.__init__
CanvasInit ==
    /\ c_ctx = NoCanvasRequest
    /\ c_pc = "ready"
    /\ c_user_message = CanvasValue("str", << >>)
    /\ c_events = << >>
    /\ c_task_counter = 0
    /\ c_agent_counter = 0
    /\ c_toolcall_id = ""
    /\ c_tasks = << >>
    /\ c_raised = "none"
    /\ c_runs = 0

\* a request arrives: execute is called with a new event queue
CanvasBegin ==
    /\ c_pc \in {"ready", "done"}
    /\ c_runs < MaxCanvasRuns
    /\ c_ctx' \in CanvasRequests
    /\ c_pc' = "extract"
    /\ c_user_message' = CanvasValue("str", << >>)
    /\ c_events' = << >>
    /\ c_toolcall_id' = ""
    /\ c_tasks' = << >>
    /\ c_raised' = "none"
    /\ c_runs' = c_runs + 1
    /\ UNCHANGED <<c_task_counter, c_agent_counter>>
    /\ UNCHANGED othersOfCanvas

\* execute, line 30: user_message = self._extract_user_message(context)
CanvasExtract ==
    /\ c_pc = "extract"
    /\ LET r == canvas_extract_user_message(c_ctx) IN
       IF r.raised
       THEN /\ c_pc' = "except"
            /\ c_raised' = "extract"
            /\ UNCHANGED c_user_message
       ELSE /\ c_user_message' = r
            /\ c_pc' = "working"
            /\ UNCHANGED c_raised
    /\ UNCHANGED <<c_ctx, c_events, c_task_counter, c_agent_counter, c_toolcall_id,
                   c_tasks, c_runs>>
    /\ UNCHANGED othersOfCanvas

\* execute, lines 34-39: the initial status update
CanvasWorking ==
    /\ c_pc = "working"
    /\ c_events' = Append(c_events, CanvasStatus(c_ctx, "working", FALSE))
    /\ c_pc' = "branch"
    /\ UNCHANGED <<c_ctx, c_user_message, c_task_counter, c_agent_counter, c_toolcall_id,
                   c_tasks, c_raised, c_runs>>
    /\ UNCHANGED othersOfCanvas

\* execute, line 41: the branch on _is_canvas_request; message.lower()
\* raises for a message that is not a str
CanvasBranch ==
    /\ c_pc = "branch"
    /\ IF c_user_message.ty # "str"
       THEN /\ c_pc' = "except"
            /\ c_raised' = "classify"
       ELSE /\ c_pc' = IF is_canvas_request(c_user_message.s) THEN "tool_initiate"
                       ELSE "default"
            /\ UNCHANGED c_raised
    /\ UNCHANGED <<c_ctx, c_user_message, c_events, c_task_counter, c_agent_counter,
                   c_toolcall_id, c_tasks, c_runs>>
    /\ UNCHANGED othersOfCanvas

\* _call_create_canvas_tool, lines 110-140: the tasks, the toolcall id and
\* the 'toolcall_initiated' artifact
CanvasToolInitiate ==
    /\ c_pc = "tool_initiate"
    /\ LET g == generate_fake_tasks(c_user_message.s, c_task_counter, c_agent_counter) IN
       /\ c_tasks' = g.tasks
       /\ c_task_counter' = g.task_counter
       /\ c_agent_counter' = g.agent_counter
       /\ \E toolcall_id \in Uuids :
            /\ c_toolcall_id' = toolcall_id
            /\ c_events' = Append(c_events,
                 CanvasInitiated(c_ctx, toolcall_id,
                                 extract_project_title(c_user_message.s), g.tasks))
    /\ c_pc' = "tool_complete"
    /\ UNCHANGED <<c_ctx, c_user_message, c_raised, c_runs>>
    /\ UNCHANGED othersOfCanvas

\* _call_create_canvas_tool, lines 143-165: the 'toolcall_completed'
\* artifact
CanvasToolComplete ==
    /\ c_pc = "tool_complete"
    /\ c_events' = Append(c_events, CanvasCompleted(c_ctx, c_toolcall_id, Len(c_tasks)))
    /\ c_pc' = "complete"
    /\ UNCHANGED <<c_ctx, c_user_message, c_task_counter, c_agent_counter, c_toolcall_id,
                   c_tasks, c_raised, c_runs>>
    /\ UNCHANGED othersOfCanvas

\* _send_default_response
CanvasDefault ==
    /\ c_pc = "default"
    /\ c_events' = Append(c_events, CanvasDefaultMessage)
    /\ c_pc' = "complete"
    /\ UNCHANGED <<c_ctx, c_user_message, c_task_counter, c_agent_counter, c_toolcall_id,
                   c_tasks, c_raised, c_runs>>
    /\ UNCHANGED othersOfCanvas

\* execute, lines 52-57: the final completion status
CanvasComplete ==
    /\ c_pc = "complete"
    /\ c_events' = Append(c_events, CanvasStatus(c_ctx, "completed", TRUE))
    /\ c_pc' = "done"
    /\ UNCHANGED <<c_ctx, c_user_message, c_task_counter, c_agent_counter, c_toolcall_id,
                   c_tasks, c_raised, c_runs>>
    /\ UNCHANGED othersOfCanvas

\* execute, lines 61-68: the handler of every exception
CanvasExcept ==
    /\ c_pc = "except"
    /\ c_events' = Append(c_events, CanvasStatus(c_ctx, "failed", TRUE))
    /\ c_pc' = "done"
    /\ UNCHANGED <<c_ctx, c_user_message, c_task_counter, c_agent_counter, c_toolcall_id,
                   c_tasks, c_raised, c_runs>>
    /\ UNCHANGED othersOfCanvas

\* ------------------------------------------------------------------------
\* Orchestrator._determine_best_agent called on its own
\* ------------------------------------------------------------------------

\* most calls made in one run of the model
MaxRoutings == 2

\* task descriptions
RouteViralStock    == <<"v","i","r","a","l"," ","s","t","o","c","k">>
RouteStockStudy    == <<"s","t","o","c","k"," ","s","t","u","d","y">>
RouteTrendAnalysis == <<"T","r","e","n","d","i","n","g"," ","a","n","a","l","y","s","i","s">>
RouteResearch      == <<"R","e","s","e","a","r","c","h">>
RouteCurrent       == <<"c","u","r","r","e","n","t">>
RoutePopularMarket == <<"p","o","p","u","l","a","r"," ","m","a","r","k","e","t">>
RouteTrading       == <<"T","R","A","D","I","N","G">>
RouteFinancial     == <<"f","i","n","a","n","c","i","a","l">>
RouteInvestment    == <<"i","n","v","e","s","t","m","e","n","t">>
RouteAnalyze       == <<"a","n","a","l","y","z","e">>
RouteMarketing     == <<"m","a","r","k","e","t","i","n","g">>
RouteStudyTrend    == <<"s","t","u","d","y"," ","t","r","e","n","d">>
RouteHello         == <<"h","e","l","l","o">>
RouteEmpty         == <<>>

RouteDescriptions ==
    {RouteViralStock, RouteStockStudy, RouteTrendAnalysis, RouteResearch,
     RouteCurrent, RoutePopularMarket, RouteTrading, RouteFinancial,
     RouteInvestment, RouteAnalyze, RouteMarketing, RouteStudyTrend,
     RouteHello, RouteEmpty}

\* values of the assigned_agent argument: None, {}, and dicts naming an agent
AssignedAgents == {"None", "empty", "named trending", "named host"}

NoRouting == [description |-> << >>, assigned |-> "", result |-> ""]

RouteInit ==
    /\ d_description = << >>
    /\ d_assigned = ""
    /\ d_result = ""
    /\ d_prev = NoRouting
    /\ d_calls = 0

RouteIdle == RouteInit

\* one call of _determine_best_agent
DetermineBestAgent ==
    /\ d_calls < MaxRoutings
    /\ \E task_description \in RouteDescriptions, assigned_agent \in AssignedAgents :
         /\ d_description' = task_description
         /\ d_assigned' = assigned_agent
         /\ d_result' = determine_best_agent(task_description, assigned_agent)
    /\ d_prev' = [description |-> d_description, assigned |-> d_assigned, result |-> d_result]
    /\ d_calls' = d_calls + 1
    /\ UNCHANGED othersOfRouting

\* ------------------------------------------------------------------------
\* TaskAgentExecutor of task_agent/client_customized_executor.py: job
\* generation with the rule-based fallback
\* ------------------------------------------------------------------------

\* most calls of _generate_jobs_with_openai made in one run of the model
MaxCustomCalls == 2

\* the keyword lists of _generate_jobs_fallback, in the order it tests them
CustomTravelKeywords ==
    << <<"t","r","i","p">>,
       <<"t","r","a","v","e","l">>,
       <<"i","t","i","n","e","r","a","r","y">>,
       <<"v","a","c","a","t","i","o","n">>,
       <<"j","o","u","r","n","e","y">>,
       <<"d","e","s","t","i","n","a","t","i","o","n">>,
       <<"v","i","s","i","t">> >>

CustomWebKeywords ==
    << <<"w","e","b"," ","a","p","p">>,
       <<"w","e","b","s","i","t","e">>,
       <<"w","e","b"," ","a","p","p","l","i","c","a","t","i","o","n">>,
       <<"f","r","o","n","t","e","n","d">>,
       <<"r","e","a","c","t">>,
       <<"n","e","x","t",".","j","s">> >>

CustomScrapingKeywords ==
    << <<"s","c","r","a","p","i","n","g">>,
       <<"s","c","r","a","p","e">>,
       <<"d","a","t","a"," ","e","x","t","r","a","c","t","i","o","n">>,
       <<"w","e","b"," ","s","c","r","a","p","i","n","g">> >>

CustomApiKeywords ==
    << <<"a","p","i">>,
       <<"b","a","c","k","e","n","d">>,
       <<"s","e","r","v","e","r">>,
       <<"d","a","t","a","b","a","s","e">>,
       <<"r","e","s","t">>,
       <<"g","r","a","p","h","q","l">> >>

CustomMobileKeywords ==
    << <<"m","o","b","i","l","e">>,
       <<"a","p","p">>,
       <<"i","o","s">>,
       <<"a","n","d","r","o","i","d">>,
       <<"r","e","a","c","t"," ","n","a","t","i","v","e">> >>

CustomAiKeywords ==
    << <<"a","i">>,
       <<"m","a","c","h","i","n","e"," ","l","e","a","r","n","i","n","g">>,
       <<"m","l">>,
       <<"d","a","t","a"," ","s","c","i","e","n","c","e">>,
       <<"a","n","a","l","y","t","i","c","s">> >>

CustomEcommerceKeywords ==
    << <<"e","-","c","o","m","m","e","r","c","e">>,
       <<"s","h","o","p">>,
       <<"s","t","o","r","e">>,
       <<"p","a","y","m","e","n","t">>,
       <<"c","h","e","c","k","o","u","t">> >>

\* the list literals of the _create_*_jobs methods: title and agent name
CustomTravelJobs ==
    << [title |-> "Destination Research & Planning", agent |-> "Travel Planning Specialist"],
       [title |-> "Accommodation & Transportation", agent |-> "Travel Logistics Coordinator"],
       [title |-> "Daily Activity Planning", agent |-> "Experience Curator"] >>

CustomWebJobs ==
    << [title |-> "Frontend Development & UI Design", agent |-> "Frontend Specialist"],
       [title |-> "Backend API & Authentication", agent |-> "Backend Engineer"],
       [title |-> "Database Architecture & Optimization", agent |-> "Database Architect"] >>

CustomScrapingJobs ==
    << [title |-> "Web Scraper Development", agent |-> "Scraping Specialist"],
       [title |-> "Data Processing & Storage", agent |-> "Data Engineer"] >>

CustomApiJobs ==
    << [title |-> "API Design & Architecture", agent |-> "API Architect"] >>

CustomMobileJobs ==
    << [title |-> "Mobile App UI/UX Design", agent |-> "Mobile UI/UX Designer"] >>

CustomAiJobs ==
    << [title |-> "Data Analysis & Model Design", agent |-> "Data Scientist"] >>

CustomEcommerceJobs ==
    << [title |-> "E-commerce Platform Development", agent |-> "E-commerce Developer"] >>

CustomGenericJobs ==
    << [title |-> "Requirements Analysis & Planning", agent |-> "Project Analyst"],
       [title |-> "Technical Implementation", agent |-> "Full-Stack Developer"] >>

\* a list literal evaluated left to right: every job gets a new uuid as
\* id, status 'submitted' and an agent with the next agent id
custom_create_jobs(template, message, counter) ==
    [jobs |-> [k \in 1..Len(template) |->
                 [isObj |-> TRUE,
                  title |-> template[k].title,
                  description |-> message,
                  id |-> "uuid4",
                  status |-> "submitted",
                  agent |-> [kind |-> "dict", id |-> counter + k, name |-> template[k].agent]]],
     agent_counter |-> counter + Len(template)]

\* TaskAgentExecutor._generate_jobs_fallback
custom_generate_jobs_fallback(message, counter) ==
    LET message_lower == Lower(message)
        template ==
            IF AnyKeywordIn(CustomTravelKeywords, message_lower) THEN CustomTravelJobs
            ELSE IF AnyKeywordIn(CustomWebKeywords, message_lower) THEN CustomWebJobs
            ELSE IF AnyKeywordIn(CustomScrapingKeywords, message_lower) THEN CustomScrapingJobs
            ELSE IF AnyKeywordIn(CustomApiKeywords, message_lower) THEN CustomApiJobs
            ELSE IF AnyKeywordIn(CustomMobileKeywords, message_lower) THEN CustomMobileJobs
            ELSE IF AnyKeywordIn(CustomAiKeywords, message_lower) THEN CustomAiJobs
            ELSE IF AnyKeywordIn(CustomEcommerceKeywords, message_lower) THEN CustomEcommerceJobs
            ELSE CustomGenericJobs
    IN custom_create_jobs(template, message, counter)

\* the try block of _generate_jobs_with_openai, lines 478-562: the
\* exception it raises ("none" when it returns jobs), the jobs, and the
\* agent counter it leaves.  find('[') = -1 raises ValueError; a slice
\* that json.loads rejects raises JSONDecodeError; an array element that
\* is not a dict raises TypeError in the loop
custom_try_block(api, counter) ==
    IF api.raised THEN [exc |-> "APIError", jobs |-> << >>, agent_counter |-> counter]
    ELSE
    LET start_idx == Find(api.content, "[")
        end_idx   == RFind(api.content, "]") + 1
    IN  IF start_idx # -1 /\ end_idx # -1
        THEN LET parsed == LoadJobArray(Slice(api.content, start_idx, end_idx)) IN
             IF ~parsed.ok
             THEN [exc |-> "JSONDecodeError", jobs |-> << >>, agent_counter |-> counter]
             ELSE LET r == CompleteJobs(parsed.jobs, counter) IN
                  [exc |-> IF r.raised THEN "TypeError" ELSE "none",
                   jobs |-> r.jobs, agent_counter |-> r.agent_counter]
        ELSE [exc |-> "ValueError", jobs |-> << >>, agent_counter |-> counter]

\* except (json.JSONDecodeError, ValueError), line 553
InnerExceptCatches(exc) == exc \in {"JSONDecodeError", "ValueError"}

\* a variant whose outer handler is written for the error of the API only
OuterExceptCatches_apionly(exc) == exc = "APIError"

\* except Exception, line 559
OuterExceptCatches(exc) == exc \in {"APIError", "JSONDecodeError", "ValueError", "TypeError"}

\* user messages: those of the template generators and the empty message
\* _extract_user_message returns for a request without text
CustomMessages == GenMessages \cup {<< >>}

\* TaskAgentExecutor.__init__ with or without an API key
CustomInit ==
    /\ f_client \in BOOLEAN
    /\ f_agent_counter = 0
    /\ f_pc = "ready"
    /\ f_message = << >>
    /\ f_exc = "none"
    /\ f_fallback = FALSE
    /\ f_jobs = << >>
    /\ f_calls = 0

\* _generate_jobs_with_openai is called: lines 474-476
CustomBegin ==
    /\ f_pc \in {"ready", "returned", "raised"}
    /\ f_calls < MaxCustomCalls
    /\ \E message \in CustomMessages : f_message' = message
    /\ f_calls' = f_calls + 1
    /\ f_exc' = "none"
    /\ f_jobs' = << >>
    /\ f_fallback' = ~f_client
    /\ f_pc' = IF f_client THEN "try" ELSE "fallback"
    /\ UNCHANGED <<f_client, f_agent_counter>>
    /\ UNCHANGED othersOfCustom

\* the try block and its two handlers, lines 478-562
CustomTry ==
    /\ f_pc = "try"
    /\ \E api \in ApiOutcomes :
         LET r == custom_try_block(api, f_agent_counter) IN
         /\ f_agent_counter' = r.agent_counter
         /\ f_exc' = r.exc
         /\ IF r.exc = "none"
            THEN /\ f_jobs' = r.jobs
                 /\ f_pc' = "returned"
                 /\ UNCHANGED f_fallback
            ELSE IF InnerExceptCatches(r.exc) \/ OuterExceptCatches(r.exc)
            THEN /\ f_pc' = "fallback"
                 /\ f_fallback' = TRUE
                 /\ UNCHANGED f_jobs
            ELSE /\ f_pc' = "raised"
                 /\ UNCHANGED <<f_fallback, f_jobs>>
    /\ UNCHANGED <<f_client, f_message, f_calls>>
    /\ UNCHANGED othersOfCustom

\* return await self._generate_jobs_fallback(user_message)
CustomFallback ==
    /\ f_pc = "fallback"
    /\ LET r == custom_generate_jobs_fallback(f_message, f_agent_counter) IN
         /\ f_jobs' = r.jobs
         /\ f_agent_counter' = r.agent_counter
    /\ f_pc' = "returned"
    /\ UNCHANGED <<f_client, f_message, f_exc, f_fallback, f_calls>>
    /\ UNCHANGED othersOfCustom

\* ------------------------------------------------------------------------
\* A2ASimpleClient.process_with_llm (task_agent/client.py)
\* ------------------------------------------------------------------------

\* max_iterations of process_with_llm
max_iterations == 5

\* the arguments string of a tool call: json is FALSE when json.loads
\* rejects it; agent_name is "" when the key is missing
ToolArgs(json, agent_name) == [json |-> json, agent_name |-> agent_name, message |-> DescPlain]

\* a tool call of a response; the id is given when the response arrives
ToolCall(name, args) == [id |-> << 0, 0 >>, name |-> name, args |-> args]

CallTrending == ToolCall("create_task", ToolArgs(TRUE, "trending"))
CallAnalyzer == ToolCall("create_task", ToolArgs(TRUE, "analyzer"))
CallHost     == ToolCall("create_task", ToolArgs(TRUE, "host"))
CallUnknown  == ToolCall("create_task", ToolArgs(TRUE, "weather"))
CallNoAgent  == ToolCall("create_task", ToolArgs(TRUE, ""))
CallBadJson  == ToolCall("create_task", ToolArgs(FALSE, ""))
CallOther    == ToolCall("get_weather", ToolArgs(TRUE, "trending"))

\* what chat.completions.create can do: raise, or answer with a message
\* that has a content (or None) and a list of tool calls
LlmResponses ==
    {[raised |-> TRUE, content |-> "None", tool_calls |-> << >>]}
    \cup {[raised |-> FALSE, content |-> c, tool_calls |-> << >>] : c \in {"None", "answer"}}
    \cup {[raised |-> FALSE, content |-> "None", tool_calls |-> t] :
            t \in { << CallTrending >>,
                    << CallTrending, CallAnalyzer >>,
                    << CallOther >>,
                    << CallHost, CallOther >>,
                    << CallBadJson >>,
                    << CallNoAgent >>,
                    << CallTrending, CallUnknown >> }}

\* what the network does during a create_task call of this model
LlmNetOutcomes ==
    {[card |-> "good", send |-> "text", reply |-> "reply-a"],
     [card |-> "connect", send |-> "exc", reply |-> "reply-a"]}

\* entries of the conversation: the dicts of the system, user and tool
\* messages and the message object of the assistant
ChatMessage(role, content) ==
    [role |-> role, content |-> content, tool_calls |-> << >>, tool_call_id |-> << 0, 0 >>]

AssistantMessage(content, tool_calls) ==
    [role |-> "assistant", content |-> content, tool_calls |-> tool_calls,
     tool_call_id |-> << 0, 0 >>]

ToolMessage(tool_call_id, content) ==
    [role |-> "tool", content |-> content, tool_calls |-> << >>, tool_call_id |-> tool_call_id]

\* the tool calls of a response with the ids of the API: one per call,
\* never used before
WithIds(tool_calls, iteration) ==
    [k \in 1..Len(tool_calls) |-> [tool_calls[k] EXCEPT !.id = << iteration, k >>]]

\* the place in the conversation of the response being processed
LastAssistant(messages) ==
    CHOOSE m \in 1..Len(messages) :
       /\ messages[m].role = "assistant"
       /\ \A n \in (m + 1)..Len(messages) : messages[n].role # "assistant"

\* A2ASimpleClient.__init__ with or without an API key
LlmInit ==
    /\ l_client \in BOOLEAN
    /\ l_cache = ClientEmptyCache
    /\ l_pc = "ready"
    /\ l_iteration = 0
    /\ l_messages = << >>
    /\ l_i = 0
    /\ l_sent = << >>
    /\ l_agent_calls = << >>
    /\ l_result = "none"

\* process_with_llm up to the loop, lines 170-204: without a client it
\* raises ValueError
LlmStart ==
    /\ l_pc = "ready"
    /\ IF ~l_client
       THEN /\ l_pc' = "raised"
            /\ l_result' = "ValueError"
            /\ UNCHANGED l_messages
       ELSE /\ l_pc' = "loop"
            /\ l_messages' = << ChatMessage("system", "system_message"),
                                ChatMessage("user", "user_query") >>
            /\ UNCHANGED l_result
    /\ UNCHANGED <<l_client, l_cache, l_iteration, l_i, l_sent, l_agent_calls>>
    /\ UNCHANGED othersOfLlm

\* one pass of the while loop up to the test of message.tool_calls,
\* lines 206-228 and 260-265: the call of the model, the assistant message
\* appended, and the return of the answer when it has no tool calls
LlmCall ==
    /\ l_pc = "loop"
    /\ l_iteration < max_iterations
    /\ l_iteration' = l_iteration + 1
    /\ l_sent' = Append(l_sent, Len(l_messages))
    /\ \E response \in LlmResponses :
         IF response.raised
         THEN /\ l_pc' = "done"
              /\ l_result' = "Error processing with LLM"
              /\ UNCHANGED <<l_messages, l_i>>
         ELSE LET message == AssistantMessage(response.content,
                                              WithIds(response.tool_calls, l_iteration + 1))
              IN /\ l_messages' = Append(l_messages, message)
                 /\ IF message.tool_calls # << >>
                    THEN /\ l_pc' = "tools"
                         /\ l_i' = 1
                         /\ UNCHANGED l_result
                    ELSE /\ l_pc' = "done"
                         /\ l_result' = IF message.content = "None"
                                        THEN "No response generated" ELSE message.content
                         /\ UNCHANGED l_i
    /\ UNCHANGED <<l_client, l_cache, l_agent_calls>>
    /\ UNCHANGED othersOfLlm

\* one pass of the for loop over message.tool_calls, lines 233-255:
\* json.loads of the arguments, and for create_task the agent call and the
\* tool message; any other function name is passed over.  After the last
\* tool call the while loop continues.
LlmToolCall ==
    /\ l_pc = "tools"
    /\ LET tool_calls == l_messages[LastAssistant(l_messages)].tool_calls
           tool_call  == tool_calls[l_i]
           last       == l_i = Len(tool_calls)
       IN  IF \/ ~tool_call.args.json
              \/ /\ tool_call.name = "create_task"
                 /\ tool_call.args.agent_name \notin DOMAIN client_available_agents
           THEN /\ l_pc' = "done"
                /\ l_result' = "Error processing with LLM"
                /\ UNCHANGED <<l_cache, l_messages, l_i, l_agent_calls>>
           ELSE /\ IF tool_call.name = "create_task"
                   THEN \E net \in LlmNetOutcomes :
                          LET agent_url == client_available_agents[tool_call.args.agent_name]
                              r == create_task(l_cache, agent_url, tool_call.args.message, net)
                          IN /\ l_cache' = r.cache
                             /\ l_agent_calls' = Append(l_agent_calls,
                                    [url |-> agent_url, message |-> tool_call.args.message,
                                     for |-> tool_call.id])
                             /\ l_messages' = Append(l_messages,
                                    ToolMessage(tool_call.id, r.result.kind))
                   ELSE UNCHANGED <<l_cache, l_agent_calls, l_messages>>
                /\ l_i' = IF last THEN 0 ELSE l_i + 1
                /\ l_pc' = IF last THEN "loop" ELSE "tools"
                /\ UNCHANGED l_result
    /\ UNCHANGED <<l_client, l_iteration, l_sent>>
    /\ UNCHANGED othersOfLlm

\* after the loop, lines 267-270: messages[-1] is a tool message, a dict
\* whose content is returned, or the assistant's message object, which
\* has no get method
LlmMaxIterations ==
    /\ l_pc = "loop"
    /\ l_iteration = max_iterations
    /\ l_pc' = "done"
    /\ l_result' = IF l_messages[Len(l_messages)].role = "tool"
                   THEN l_messages[Len(l_messages)].content
                   ELSE "Error processing with LLM"
    /\ UNCHANGED <<l_client, l_cache, l_iteration, l_messages, l_i, l_sent, l_agent_calls>>
    /\ UNCHANGED othersOfLlm

\* ------------------------------------------------------------------------
\* Specifications
\* ------------------------------------------------------------------------

vars == <<orchVars, agentVars, callVars, genVars, canvasVars, routeVars, customVars, llmVars>>

\* values of the variables of a component that is not running
OrchIdle ==
    /\ ctx = RequestContext("", "", FALSE, << >>, ConfigAbsent)
    /\ openai_client = FALSE
    /\ agent_counter = 0
    /\ agent_info_cache = EmptyCache
    /\ pc = "idle"
    /\ user_message = << >>
    /\ is_blocking = "unset"
    /\ tasks = TasksAbsent
    /\ idx = 0
    /\ result = NoResult
    /\ events = << >>
    /\ posts = << >>
    /\ webhook_calls = 0
    /\ webhook_failed = FALSE
    /\ agent_calls = << >>
    /\ returns = << >>
    /\ called = {}
    /\ raisedAt = "none"

AgentIdle ==
    /\ x_agent = ""
    /\ x_context = [task_id |-> "", context_id |-> "", has_task |-> FALSE]
    /\ x_pc = "idle"
    /\ x_yielded = 0
    /\ x_model = NotCalled
    /\ x_events = << >>

CallIdle == CallInit

GenIdle == GenInit

CanvasIdle == CanvasInit

LlmIdle ==
    /\ l_client = FALSE
    /\ l_cache = ClientEmptyCache
    /\ l_pc = "idle"
    /\ l_iteration = 0
    /\ l_messages = << >>
    /\ l_i = 0
    /\ l_sent = << >>
    /\ l_agent_calls = << >>
    /\ l_result = "none"

CustomIdle ==
    /\ f_client = FALSE
    /\ f_agent_counter = 0
    /\ f_pc = "idle"
    /\ f_message = << >>
    /\ f_exc = "none"
    /\ f_fallback = FALSE
    /\ f_jobs = << >>
    /\ f_calls = 0

\* one call of Orchestrator.execute on a new Orchestrator
Init == OrchInit /\ AgentIdle /\ CallIdle /\ GenIdle /\ CanvasIdle /\ RouteIdle /\ CustomIdle /\ LlmIdle

Next ==
    \/ ExtractMessage
    \/ ClassifyBlocking
    \/ Dispatch
    \/ JobsBegin
    \/ JobStart
    \/ JobExec
    \/ JobComplete
    \/ JobsFinish
    \/ JobsCompleted
    \/ GenerateBlocking
    \/ GenerateResponse
    \/ ExecuteExcept

Spec == Init /\ [][Next]_vars

\* one call of execute on one of the model-backed executors
AgentsInit == AgentInit /\ OrchIdle /\ CallIdle /\ GenIdle /\ CanvasIdle /\ RouteIdle /\ CustomIdle /\ LlmIdle

AgentsNext ==
    \/ AgentBegin
    \/ AgentProgress
    \/ AgentModelCall

SpecAgents == AgentsInit /\ [][AgentsNext]_vars

\* calls of remote agents through an Orchestrator and an A2ASimpleClient
CallsInit == CallInit /\ OrchIdle /\ AgentIdle /\ GenIdle /\ CanvasIdle /\ RouteIdle /\ CustomIdle /\ LlmIdle

CallsNext ==
    \/ OrchestratorAgentCall
    \/ ClientCreateTask

SpecCalls == CallsInit /\ [][CallsNext]_vars

\* calls of _generate_jobs on a new TaskAgentExecutor
GenerationInit == GenInit /\ OrchIdle /\ AgentIdle /\ CallIdle /\ CanvasIdle /\ RouteIdle /\ CustomIdle /\ LlmIdle

GenerationNext ==
    \/ GenerateJobs

SpecGeneration == GenerationInit /\ [][GenerationNext]_vars

\* calls of execute on a new CanvasAgentExecutor
CanvasSpecInit == CanvasInit /\ OrchIdle /\ AgentIdle /\ CallIdle /\ GenIdle /\ RouteIdle /\ CustomIdle /\ LlmIdle

CanvasNext ==
    \/ CanvasBegin
    \/ CanvasExtract
    \/ CanvasWorking
    \/ CanvasBranch
    \/ CanvasToolInitiate
    \/ CanvasToolComplete
    \/ CanvasDefault
    \/ CanvasComplete
    \/ CanvasExcept

SpecCanvas == CanvasSpecInit /\ [][CanvasNext]_vars

\* calls of _determine_best_agent
RoutingInit == RouteInit /\ OrchIdle /\ AgentIdle /\ CallIdle /\ GenIdle /\ CanvasIdle /\ CustomIdle /\ LlmIdle

RoutingNext ==
    \/ DetermineBestAgent

SpecRouting == RoutingInit /\ [][RoutingNext]_vars

\* calls of _generate_jobs_with_openai on one TaskAgentExecutor of
\* client_customized_executor.py
CustomSpecInit == CustomInit /\ OrchIdle /\ AgentIdle /\ CallIdle /\ GenIdle /\ CanvasIdle /\ RouteIdle /\ LlmIdle

CustomNext ==
    \/ CustomBegin
    \/ CustomTry
    \/ CustomFallback

SpecCustom == CustomSpecInit /\ [][CustomNext]_vars

\* one call of process_with_llm on a new A2ASimpleClient
LlmSpecInit == LlmInit /\ OrchIdle /\ AgentIdle /\ CallIdle /\ GenIdle /\ CanvasIdle /\ RouteIdle /\ CustomIdle

LlmNext ==
    \/ LlmStart
    \/ LlmCall
    \/ LlmToolCall
    \/ LlmMaxIterations

SpecLlm == LlmSpecInit /\ [][LlmNext]_vars

\* ------------------------------------------------------------------------
\* Properties of Orchestrator.execute
\* ------------------------------------------------------------------------

GenerationMethods == {"_generate_tasks_blocking", "_generate_tasks_response"}

\* the message is one JSON document, an object, with "type": "execute_jobs"
ParsesAsExecuteJobs(message) ==
    /\ Len(SelectSeq(message, LAMBDA d : d.k # "blank")) = 1
    /\ \E k \in 1..Len(message) :
         /\ message[k].k = "json"
         /\ message[k].v.t = "obj"
         /\ message[k].v.type = "execute_jobs"

\* execute has passed its dispatch without an exception before it
Dispatched == pc \notin {"extract", "classify", "dispatch"} /\ raisedAt \notin {"extract", "classify"}

\* C1: a request that reaches the dispatch of execute is handled by exactly
\* one of _execute_jobs_async, _generate_tasks_blocking and
\* _generate_tasks_response; it is _execute_jobs_async if and only if the
\* extracted message parses as a JSON object whose "type" is "execute_jobs";
\* job execution and task generation never both run for one request.
C1_ExactlyOneMode ==
    /\ ~("_execute_jobs_async" \in called /\ called \cap GenerationMethods # {})
    /\ Dispatched => Cardinality(called) = 1
    /\ Dispatched =>
         (("_execute_jobs_async" \in called) <=> ParsesAsExecuteJobs(user_message))
    /\ ~Dispatched => called = {}

C1_Witness ==
    /\ pc = "done"
    /\ called = {"_execute_jobs_async"}
    /\ Len(ctx.parts) = 1
    /\ Len(ctx.parts[1].lines) = 2

\* the tasks of the request: the "tasks" list of the message is a list (or
\* is missing) and every element is an object
WellFormedTasks(message) ==
    /\ TasksOf(message).kind = "list"
    /\ \A k \in 1..Len(TasksOf(message).items) : TasksOf(message).items[k].isObj

NumTasks(message) == Len(TasksOf(message).items)

\* ids and states of the webhooks sent so far, in order
PostsOrder ==
    [k \in 1..Len(posts) |-> [id |-> posts[k].json.id, state |-> posts[k].json.status.state]]

\* 'working' for the task, then 'working' and 'completed' for each job in
\* list order, then 'completed' for the task
ExpectedOrder(task_id, n) ==
    [k \in 1..(2 * n + 2) |->
        IF k = 1 THEN [id |-> [base |-> task_id, job |-> -1], state |-> "working"]
        ELSE IF k = 2 * n + 2 THEN [id |-> [base |-> task_id, job |-> -1], state |-> "completed"]
        ELSE [id |-> [base |-> task_id, job |-> (k - 2) \div 2],
              state |-> IF (k - 2) % 2 = 0 THEN "working" ELSE "completed"]]

IsPrefix(s, t) == Len(s) <= Len(t) /\ SubSeq(t, 1, Len(s)) = s

\* _execute_jobs_async has returned to execute
JobsReturned ==
    "_execute_jobs_async" \in called /\ pc \in {"jobs_after", "done"} /\ raisedAt = "none"

\* C2: for a job-execution request with a complete pushNotificationConfig
\* and n sub-tasks (objects), the webhooks sent at any moment are a prefix
\* of: 'working' for the task id, then for i = 0..n-1 'working' and
\* 'completed' for '<task_id>-job-<i>', then 'completed' for the task id;
\* when _execute_jobs_async has returned all 2n+2 have been sent.
C2_WebhookOrder ==
    ("_execute_jobs_async" \in called /\ WebhookConfigured(ctx) /\ WellFormedTasks(user_message))
    => /\ IsPrefix(PostsOrder, ExpectedOrder(ctx.task_id, NumTasks(user_message)))
       /\ JobsReturned =>
            /\ Len(posts) = 2 * NumTasks(user_message) + 2
            /\ PostsOrder = ExpectedOrder(ctx.task_id, NumTasks(user_message))

C2_Witness ==
    /\ pc = "done"
    /\ WebhookConfigured(ctx)
    /\ WellFormedTasks(user_message)
    /\ NumTasks(user_message) = 2
    /\ Len(posts) = 6



\* the sub-tasks executed so far: one entry of returns per call of
\* _execute_task_with_agent, for tasks 1..Len(returns) of the list
ExecutedTasks == 1..Len(returns)

\* C3: for every executed sub-task whose description is a string (or is
\* missing), _call_a2a_agent is called with that description and with the
\* url of the agent selected by keyword match: trending, market_analysis,
\* analyzer or host.
C3_EveryTaskSentToSelectedAgent ==
    LET stringTasks == {k \in ExecutedTasks : tasks.items[k].desc.ty # "num"} IN
    /\ Len(agent_calls) = Cardinality(stringTasks)
    /\ \A k \in stringTasks :
         \E c \in 1..Len(agent_calls) :
            /\ agent_calls[c].message = tasks.items[k].desc.s
            /\ agent_calls[c].agent = determine_best_agent(tasks.items[k].desc.s, "assigned")

\* C4: every call of _call_webhook sends exactly one POST whatever the
\* outcome of the delivery; a failed delivery raises nothing and puts
\* nothing on the event queue, and job execution goes on as without it: an
\* exception in job execution comes from the task list alone, and when
\* _execute_jobs_async returns every job has run and every webhook was sent.
C4_WebhookOnceNoEffect ==
    /\ Len(posts) = webhook_calls
    /\ raisedAt = "jobs" =>
         (tasks.kind = "null" \/ ~tasks.items[idx + 1].isObj)
    /\ (JobsReturned /\ WebhookConfigured(ctx)) =>
         /\ Len(posts) = 2 * Len(tasks.items) + 2
         /\ Len(returns) = Len(tasks.items)
    /\ (pc = "done" /\ "_execute_jobs_async" \in called /\ raisedAt = "none") =>
         events = << [kind |-> "status", taskId |-> ctx.task_id, contextId |-> ctx.context_id,
                      state |-> "completed", final |-> TRUE, parts |-> << >>, count |-> 0] >>

C4_Witness ==
    /\ pc = "done"
    /\ webhook_failed
    /\ raisedAt = "none"
    /\ Len(tasks.items) = 2
    /\ Len(posts) = 6

FailedFinal(e) ==
    /\ e.kind = "status"
    /\ e.state = "failed"
    /\ e.final
    /\ e.taskId = ctx.task_id
    /\ e.contextId = ctx.context_id

\* C5: when a step of execute raises (message extraction, request
\* classification, task generation, job execution), the exception reaches
\* the handler of execute and nothing else runs; execute then ends
\* normally, and the last event on the queue is a TaskStatusUpdateEvent with
\* state 'failed' and final=True for the request's task id and context id.
C5_RaiseReportsFailed ==
    /\ raisedAt # "none" => pc \in {"except", "done"}
    /\ (raisedAt # "none" /\ pc = "done") =>
         /\ events # << >>
         /\ FailedFinal(events[Len(events)])
    /\ pc = "except" => raisedAt \in {"extract", "classify", "generate", "jobs"}

C5_Witness ==
    /\ pc = "done"
    /\ raisedAt = "jobs"
    /\ Len(posts) >= 3

\* the request has no configuration at all
NoConfiguration(context) == ~context.hasMessage \/ context.config.kind = "absent"

\* the 'blocking' entry of the configuration is truthy
BlockingEntryTruthy(context) ==
    context.config.blocking # "absent" /\ context.config.blocking \in {"True", "one", "str"}

\* C6 as stated: a task-generation request takes _generate_tasks_blocking
\* if it has no configuration or the 'blocking' entry of its configuration
\* is truthy, and _generate_tasks_response otherwise.
C6_BlockingAsStated ==
    (called \cap GenerationMethods # {}) =>
        (("_generate_tasks_blocking" \in called)
            <=> (NoConfiguration(ctx) \/ BlockingEntryTruthy(ctx)))

\* the configuration is a dict without entries
EmptyConfiguration(context) ==
    /\ context.hasMessage
    /\ context.config.kind = "dict"
    /\ context.config.blocking = "absent"
    /\ context.config.push.kind = "absent"
    /\ ~context.config.other

\* C6 amended: a task-generation request takes _generate_tasks_blocking if
\* it has no configuration, if its configuration is empty, or if the
\* 'blocking' entry of its configuration is truthy; otherwise, and so for a
\* non-empty configuration without 'blocking' entry, it takes
\* _generate_tasks_response.
C6_BlockingAmended ==
    (called \cap GenerationMethods # {}) =>
        /\ Cardinality(called) = 1
        /\ ("_generate_tasks_blocking" \in called)
             <=> (NoConfiguration(ctx) \/ EmptyConfiguration(ctx) \/ BlockingEntryTruthy(ctx))

C6_Witness ==
    /\ pc = "done"
    /\ EmptyConfiguration(ctx)
    /\ called = {"_generate_tasks_blocking"}

\* C10: the 'completed' webhook of job i carries exactly one artifact; its
\* jobId is the id of the webhook, '<task_id>-job-<i>', and its result is
\* the value _execute_task_with_agent returned for sub-task i.
C10_JobResultReported ==
    \A k \in 1..Len(posts) :
       (posts[k].json.status.state = "completed" /\ posts[k].json.id.job # -1) =>
          LET i == posts[k].json.id.job IN
          /\ i = (k - 2) \div 2
          /\ i + 1 \in 1..Len(returns)
          /\ Len(posts[k].json.artifacts) = 1
          /\ posts[k].json.artifacts[1].jobId = posts[k].json.id
          /\ posts[k].json.artifacts[1].jobId = [base |-> ctx.task_id, job |-> i]
          /\ posts[k].json.artifacts[1].result = returns[i + 1]

\* two jobs with different results, both reported
C10_Witness ==
    /\ pc = "done"
    /\ Len(returns) = 2
    /\ returns[1] # returns[2]
    /\ returns[2].kind = "text"
    /\ Len(posts) = 6


\* ------------------------------------------------------------------------
\* Properties of the model-backed executors
\* ------------------------------------------------------------------------

IsWorking(e) == e.kind = "status" /\ e.state = "working"

\* a terminal update: an artifact, or a status with final=True
IsTerminal(e) == e.kind = "artifact" \/ e.final

Artifacts == SelectSeq(x_events, LAMBDA e : e.kind = "artifact")

Finals == SelectSeq(x_events, LAMBDA e : e.final)

\* C7: in every execute call of the Host, Analyzer, Trending and
\* Market-Analysis executors a 'working' status precedes every terminal
\* update and no update follows a final one; when the call has ended after
\* a successful model call the queue ends with exactly one artifact, named
\* by the executor and holding the model's answer, followed by the final
\* 'completed' status; when the model call raised it ends with a final
\* 'input_required' status carrying "Error processing request: " and the
\* error text, and holds no artifact.
C7_WorkingThenOneTerminal ==
    /\ \A i \in 1..Len(x_events) :
         IsTerminal(x_events[i]) => \E j \in 1..(i - 1) : IsWorking(x_events[j])
    /\ \A i \in 1..(Len(x_events) - 1) : ~x_events[i].final
    /\ x_pc # "done" => (Artifacts = << >> /\ Finals = << >>)
    /\ (x_pc = "done" /\ x_model.ok) =>
         /\ Len(x_events) >= 3
         /\ Len(Artifacts) = 1
         /\ Len(Finals) = 1
         /\ x_events[Len(x_events) - 1] =
              AgentEvent("artifact", "", FALSE, [prefix |-> "", body |-> x_model.text],
                         ArtifactName(x_agent))
         /\ x_events[Len(x_events)] = AgentEvent("status", "completed", TRUE, NoContent, "")
    /\ (x_pc = "done" /\ ~x_model.ok) =>
         /\ x_model.called
         /\ Artifacts = << >>
         /\ Len(Finals) = 1
         /\ x_events[Len(x_events)] =
              AgentEvent("status", "input_required", TRUE,
                         [prefix |-> "Error processing request: ", body |-> x_model.text], "")

\* the model call of the Market-Analysis executor raised
C7_Witness ==
    /\ x_pc = "done"
    /\ x_agent = "market_analysis"
    /\ x_model.called
    /\ ~x_model.ok
    /\ Len(x_events) = 4

\* ------------------------------------------------------------------------
\* Properties of repeated calls of remote agents
\* ------------------------------------------------------------------------

CacheOf(t) == IF t[1] = "orchestrator" THEN k_orch_cache[t[2]] ELSE k_client_cache[t[2]]

\* C8 as stated: nothing fetched from a remote agent is retained, and
\* every call of _call_a2a_agent and of create_task fetches the agent's
\* card: the fetches of a url are as many as the calls to it.
C8_EveryCallFetches ==
    \A t \in CallTargets :
       /\ k_fetches[t] = k_calls[t]
       /\ CacheOf(t) = "none"

\* C8 amended: each Orchestrator and each A2ASimpleClient retains, per
\* url, the first agent card it fetched with status 200 and a body other
\* than null; the calls to a url fetch the card up to and including the
\* call that stored one, and no later call of that instance fetches it.
C8_FetchesUntilCached ==
    \A t \in CallTargets :
       /\ (k_stored_at[t] = 0) <=> (CacheOf(t) \in {"none", "null"})
       /\ IF k_stored_at[t] = 0
          THEN k_fetches[t] = k_calls[t]
          ELSE k_fetches[t] = k_stored_at[t]
       /\ (k_last.who = t[1] /\ k_last.url = t[2] /\ ~k_last.fetched) =>
            (k_stored_at[t] # 0 /\ k_stored_at[t] < k_calls[t])

\* a client answered its third call to an agent from the card it stored in
\* the first
C8_Witness ==
    \E t \in CallTargets :
       /\ t[1] = "client"
       /\ k_stored_at[t] = 1
       /\ k_calls[t] = 3
       /\ k_fetches[t] = 1
       /\ ~k_last.fetched
       /\ k_last.result.kind = "text"

\* ------------------------------------------------------------------------
\* Properties of the template generators
\* ------------------------------------------------------------------------

\* C9 as stated: two calls of _generate_jobs with the same message on the
\* same executor return equal job structures, and a call leaves
\* job_counter, agent_counter and tasks_store as they were.
C9_GeneratorsPure ==
    /\ (g_calls >= 2 /\ g_prev.message = g_last.message) => g_prev.jobs = g_last.jobs
    /\ g_calls >= 1 => (job_counter = g_last.jc /\ g_agent_counter = g_last.ac)
    /\ tasks_store = {}

\* a job without its two ids
Canned(job) ==
    [title |-> job.title, description |-> job.description, status |-> job.status,
     agent |-> job.assignedAgent.name]

\* C9 amended: two calls of _generate_jobs with the same message on the
\* same executor return job lists that are equal except for the job ids
\* and agent ids; the k-th job of a call has the job counter at the call
\* plus k as its id and the agent counter plus k as the id of its agent,
\* both counters advance by the number of jobs returned, and tasks_store
\* is left unchanged.
C9_GeneratorsEqualUpToIds ==
    /\ (g_calls >= 2 /\ g_prev.message = g_last.message) =>
         /\ Len(g_prev.jobs) = Len(g_last.jobs)
         /\ \A k \in 1..Len(g_last.jobs) : Canned(g_prev.jobs[k]) = Canned(g_last.jobs[k])
    /\ g_calls >= 1 =>
         /\ \A k \in 1..Len(g_last.jobs) :
              /\ g_last.jobs[k].id = g_last.jc + k
              /\ g_last.jobs[k].assignedAgent.id = g_last.ac + k
              /\ g_last.jobs[k].description.message = g_last.message
              /\ g_last.jobs[k].status = "submitted"
         /\ Len(g_last.jobs) \in 2..4
         /\ job_counter = g_last.jc + Len(g_last.jobs)
         /\ g_agent_counter = g_last.ac + Len(g_last.jobs)
    /\ tasks_store = {}

\* the same message twice in a row
C9_Witness ==
    /\ g_calls = 2
    /\ g_prev.message = MsgWebApp
    /\ g_last.message = MsgWebApp
    /\ g_last.jobs[1].id = 5
    /\ g_prev.jobs[1].id = 1


\* ------------------------------------------------------------------------
\* Properties of CanvasAgentExecutor.execute
\* ------------------------------------------------------------------------

IsCanvasStatus(e, state, final) ==
    /\ e.kind = "status"
    /\ e.state = state
    /\ e.final = final
    /\ e.taskId = c_ctx.task_id
    /\ e.contextId = c_ctx.context_id

CanvasCompletedStatuses ==
    SelectSeq(c_events, LAMBDA e : e.kind = "status" /\ e.state = "completed")

\* C11: an execute call of CanvasAgentExecutor that ends without an
\* exception has enqueued, in this order: a 'working' status with
\* final=False; for a message with a canvas keyword a 'toolcall_initiated'
\* artifact with lastChunk=False and a 'toolcall_completed' artifact with
\* lastChunk=True and the same toolcall id, for any other message one
\* default text message; a 'completed' status with final=True.  When a step
\* raised, the queue ends with a 'failed' status with final=True and holds
\* no 'completed' status.  The first event is never anything but the
\* 'working' status, unless the message extraction raised.
C11_CanvasEventOrder ==
    /\ (c_events # << >> /\ c_raised # "extract") => IsCanvasStatus(c_events[1], "working", FALSE)
    /\ (c_pc = "done" /\ c_raised = "none") =>
         /\ c_user_message.ty = "str"
         /\ IsCanvasStatus(c_events[Len(c_events)], "completed", TRUE)
         /\ Len(CanvasCompletedStatuses) = 1
         /\ IF is_canvas_request(c_user_message.s)
            THEN /\ Len(c_events) = 4
                 /\ c_events[2].kind = "artifact"
                 /\ c_events[2].type = "toolcall_initiated"
                 /\ c_events[2].lastChunk = FALSE
                 /\ c_events[3].kind = "artifact"
                 /\ c_events[3].type = "toolcall_completed"
                 /\ c_events[3].lastChunk = TRUE
                 /\ c_events[3].toolcall = c_events[2].toolcall
                 /\ c_events[2].toolcall \in Uuids
            ELSE /\ Len(c_events) = 3
                 /\ c_events[2] = CanvasDefaultMessage
    /\ (c_pc = "done" /\ c_raised # "none") =>
         /\ IsCanvasStatus(c_events[Len(c_events)], "failed", TRUE)
         /\ CanvasCompletedStatuses = << >>
         /\ Len(c_events) = IF c_raised = "extract" THEN 1 ELSE 2
    /\ c_pc = "except" => c_raised # "none"

\* the second call on an executor, with a canvas keyword after the marker
C11_Witness ==
    /\ c_pc = "done"
    /\ c_runs = 2
    /\ c_raised = "none"
    /\ c_user_message.s = <<"d","e","v","e","l","o","p">>
    /\ Len(c_events) = 4
    /\ c_events[2].tasks[1].id > 1


\* ------------------------------------------------------------------------
\* Further properties of Orchestrator.execute
\* ------------------------------------------------------------------------

\* the request has no pushNotificationConfig, or one without url or
\* without token
LacksWebhook(context) ==
    \/ ~context.hasMessage
    \/ context.config.kind # "dict"
    \/ context.config.push.kind # "dict"
    \/ context.config.push.url = ""
    \/ context.config.push.token = ""

\* C12: in a job-execution request whose message has no
\* pushNotificationConfig, or one lacking url or token, no webhook is sent,
\* no sub-task is executed and no remote agent is called, nothing raises,
\* and execute ends with a final 'completed' status as its only event.
C12_NoWebhookNoExecution ==
    ("_execute_jobs_async" \in called /\ LacksWebhook(ctx)) =>
        /\ posts = << >>
        /\ webhook_calls = 0
        /\ returns = << >>
        /\ agent_calls = << >>
        /\ raisedAt = "none"
        /\ pc \in {"jobs_begin", "jobs_after", "done"}
        /\ pc = "done" =>
             /\ Len(events) = 1
             /\ events[1].kind = "status"
             /\ events[1].state = "completed"
             /\ events[1].final
             /\ events[1].taskId = ctx.task_id

\* a request with a webhook url and no token
C12_Witness ==
    /\ pc = "done"
    /\ called = {"_execute_jobs_async"}
    /\ ctx.config.push.kind = "dict"
    /\ ctx.config.push.url # ""
    /\ ctx.config.push.token = ""
    /\ NumTasks(user_message) = 1
    /\ Len(events) = 1


FinalStatus(e) ==
    /\ e.kind = "status"
    /\ e.final
    /\ e.state \in {"completed", "failed"}

\* C13 as stated: every execute call that has returned has enqueued a
\* TaskStatusUpdateEvent with final=True whose state is 'completed' or
\* 'failed'.
C13_FinalStatusOnReturn ==
    pc = "done" => \E k \in 1..Len(events) : FinalStatus(events[k])

\* blocking task generation has succeeded
BlockingSucceeded ==
    pc = "done" /\ "_generate_tasks_blocking" \in called /\ raisedAt = "none"

\* C13 amended: every execute call that has returned has enqueued an event
\* with final=True as its last event: a TaskStatusUpdateEvent 'completed'
\* or 'failed' on every path but successful blocking task generation,
\* where it is the TaskArtifactUpdateEvent with final=True and the queue
\* holds no status event at all.
C13_FinalEventOnReturn ==
    pc = "done" =>
        /\ events # << >>
        /\ events[Len(events)].final
        /\ IF BlockingSucceeded
           THEN /\ Len(events) = 1
                /\ events[1].kind = "artifact"
           ELSE /\ FinalStatus(events[Len(events)])
                /\ events[Len(events)].taskId = ctx.task_id
                /\ events[Len(events)].contextId = ctx.context_id
                /\ events[Len(events)].state = "failed" <=> raisedAt # "none"

C13_Witness ==
    /\ BlockingSucceeded
    /\ Len(events) = 1
    /\ events[1].kind = "artifact"
    /\ events[1].final
    /\ Len(events[1].parts) = 2


FinalEvents == SelectSeq(events, LAMBDA e : e.final)

\* C14: within one execute call at most one event with final=True is
\* enqueued and no event is enqueued after it.
C14_AtMostOneFinal ==
    /\ Len(FinalEvents) <= 1
    /\ \A k \in 1..(Len(events) - 1) : ~events[k].final


IsJobPost(p, state) == p.json.id.job # -1 /\ p.json.status.state = state

\* C15: every 'working' webhook of a job is followed next by the
\* 'completed' webhook of the same job id, which carries the string the
\* agent call returned, whatever that call met (an unavailable agent, a
\* connection error, a timeout, an agent-side error, a description that is
\* not a string); only while the agent call of the job is under way is the
\* 'working' webhook the last one.  Nothing raises between the two, and no
\* webhook ever has state 'failed'.
C15_WorkingThenCompleted ==
    /\ \A k \in 1..Len(posts) :
         /\ posts[k].json.status.state \in {"working", "completed"}
         /\ IsJobPost(posts[k], "working") =>
              IF k = Len(posts)
              THEN pc \in {"job_exec", "job_complete"} /\ raisedAt = "none"
              ELSE /\ IsJobPost(posts[k + 1], "completed")
                   /\ posts[k + 1].json.id = posts[k].json.id
                   /\ posts[k + 1].json.artifacts[1].result
                        = returns[posts[k].json.id.job + 1]
    /\ pc \in {"job_exec", "job_complete"} =>
         (raisedAt = "none" /\ IsJobPost(posts[Len(posts)], "working"))

\* an unavailable agent and a timeout, both reported 'completed'
C15_Witness ==
    /\ pc = "done"
    /\ Len(returns) = 2
    /\ returns[1].kind = "not_available"
    /\ returns[2].kind = "connect_timeout"
    /\ Len(posts) = 6
    /\ IsJobPost(posts[5], "completed")

\* ------------------------------------------------------------------------
\* Properties of Orchestrator._determine_best_agent
\* ------------------------------------------------------------------------

TrendingWords ==
    {<<"t","r","e","n","d">>,
     <<"t","r","e","n","d","i","n","g">>,
     <<"c","u","r","r","e","n","t">>,
     <<"p","o","p","u","l","a","r">>,
     <<"v","i","r","a","l">>}

MarketWords ==
    {<<"m","a","r","k","e","t">>,
     <<"s","t","o","c","k">>,
     <<"f","i","n","a","n","c","i","a","l">>,
     <<"i","n","v","e","s","t","m","e","n","t">>,
     <<"t","r","a","d","i","n","g">>}

AnalyzerWords ==
    {<<"a","n","a","l","y","z","e">>,
     <<"a","n","a","l","y","s","i","s">>,
     <<"r","e","s","e","a","r","c","h">>,
     <<"s","t","u","d","y">>}

\* the lower-cased description contains one of the words
Mentions(description, words) ==
    \E w \in words :
       \E k \in 0..(Len(description) - Len(w)) :
          \A m \in 1..Len(w) : LowerChar(description[k + m]) = w[m]

C17_SelectedAgentAvailable ==
    \A k \in 1..Len(returns) :
       /\ returns[k].kind # "not_available"
       /\ tasks.items[k].desc.ty # "num" =>
            determine_best_agent(tasks.items[k].desc.s, "assigned") \in DOMAIN available_agents


\* execute has returned from a task-generation request
GenerationReturned == pc = "done" /\ called \cap GenerationMethods # {}

\* C18: without an OpenAI client a task-generation request still yields
\* a task artifact and does not end in 'failed'.
C18_NoClientStillArtifact ==
    (GenerationReturned /\ ~openai_client) =>
        /\ \E k \in 1..Len(events) : events[k].kind = "artifact"
        /\ \A k \in 1..Len(events) : events[k].state # "failed"


\* execute has returned from non-blocking task generation
ResponseReturned == pc = "done" /\ "_generate_tasks_response" \in called

\* C19: successful non-blocking task generation enqueues exactly three
\* events in this order: the TaskArtifactUpdateEvent with final=False
\* holding all task data parts, the agent text message, and the
\* TaskStatusUpdateEvent 'completed' with final=True.  When job
\* generation fails none of the three is enqueued and the only event is
\* the 'failed' status.
C19_ResponseEvents ==
    ResponseReturned =>
        IF raisedAt = "none"
        THEN /\ Len(events) = 3
             /\ events[1].kind = "artifact"
             /\ ~events[1].final
             /\ events[2].kind = "message"
             /\ events[2].count = Len(events[1].parts)
             /\ events[3] = StatusEvent(ctx, "completed", TRUE)
        ELSE /\ raisedAt = "generate"
             /\ events = << StatusEvent(ctx, "failed", TRUE) >>

\* a generation of two tasks that has enqueued its three events
C19_Witness ==
    /\ ResponseReturned
    /\ raisedAt = "none"
    /\ Len(events) = 3
    /\ Len(events[1].parts) = 2
    /\ events[2].count = 2
    /\ events[3].state = "completed"


\* the artifact events on the queue
ArtifactEvents == SelectSeq(events, LAMBDA e : e.kind = "artifact")

\* part number i (0-based) is the task of the job: its order is i, its
\* status 'submitted', its contextId the request's, its id a new one, its
\* title and description the job's or the numbered defaults
PartOfJob(part, job, i) ==
    /\ part.order = i
    /\ part.status = "submitted"
    /\ part.contextId = ctx.context_id
    /\ part.id = "uuid4"
    /\ part.title = IF job.title # "" THEN [text |-> job.title, n |-> 0]
                    ELSE [text |-> "Task", n |-> i + 1]
    /\ part.description = IF job.description # "" THEN [text |-> job.description, n |-> 0]
                          ELSE [text |-> "Generated task for", n |-> i + 1]

\* the job lists _generate_jobs_with_openai can return in this call
GeneratedJobLists ==
    {r.jobs : r \in {x \in {generate_jobs_with_openai(openai_client, user_message, api, 0) :
                              api \in ApiOutcomes} : ~x.raised}}

CustomPastTry == f_pc \in {"fallback", "returned", "raised"}

\* C21: _generate_jobs_with_openai of client_customized_executor never
\* raises: a missing client, an error of the OpenAI call, a response
\* without a JSON array and a response whose array is not valid JSON all
\* lead to the rule-based fallback, and the fallback returns a non-empty
\* job list for every user message.
C21_AlwaysFallsBack ==
    /\ f_pc # "raised"
    /\ (CustomPastTry /\ (~f_client \/ f_exc \in {"APIError", "ValueError", "JSONDecodeError"}))
          => f_fallback
    /\ (f_pc = "returned" /\ f_fallback) =>
          /\ f_jobs # << >>
          /\ f_jobs = custom_generate_jobs_fallback(f_message, f_agent_counter - Len(f_jobs)).jobs

\* the model answered with an array that is not valid JSON and the
\* fallback returned the three travel jobs
C21_Witness ==
    /\ f_pc = "returned"
    /\ f_client
    /\ f_exc = "JSONDecodeError"
    /\ f_fallback
    /\ f_message = MsgSpainTrip
    /\ Len(f_jobs) = 3


\* ------------------------------------------------------------------------
\* Properties of process_with_llm
\* ------------------------------------------------------------------------

\* the tool calls of the assistant message at place m are answered within
\* the first n messages: the messages after it are their tool messages,
\* one for each tool call and in their order
AnsweredWithin(n, m) ==
    LET tool_calls == l_messages[m].tool_calls IN
    /\ m + Len(tool_calls) <= n
    /\ \A j \in 1..Len(tool_calls) :
          /\ l_messages[m + j].role = "tool"
          /\ l_messages[m + j].tool_call_id = tool_calls[j].id
    /\ m + Len(tool_calls) < n => l_messages[m + Len(tool_calls) + 1].role # "tool"

ToolMessages == SelectSeq(l_messages, LAMBDA msg : msg.role = "tool")

\* C22: every tool call the model has requested is answered by exactly
\* one 'tool' message with its tool_call_id, in the order of the tool
\* calls and before the next call of the model, and the remote agents are
\* called one at a time in that order.
C22_ToolCallsAnswered ==
    /\ \A k \in 1..Len(l_sent) :
          \A m \in 1..l_sent[k] :
             l_messages[m].role = "assistant" => AnsweredWithin(l_sent[k], m)
    /\ Len(l_agent_calls) = Len(ToolMessages)
    /\ \A k \in 1..Len(l_agent_calls) : l_agent_calls[k].for = ToolMessages[k].tool_call_id


\* ------------------------------------------------------------------------
\* Properties of the template choice of _generate_jobs
\* ------------------------------------------------------------------------

\* the keyword groups in the order the claim gives them, with their
\* templates
GroupOrder ==
    << [keywords |-> WebKeywords,       template |-> WebTemplate],
       [keywords |-> ScrapingKeywords,  template |-> ScrapingTemplate],
       [keywords |-> ApiKeywords,       template |-> ApiTemplate],
       [keywords |-> MobileKeywords,    template |-> MobileTemplate],
       [keywords |-> AiKeywords,        template |-> AiTemplate],
       [keywords |-> EcommerceKeywords, template |-> EcommerceTemplate],
       [keywords |-> TravelKeywords,    template |-> TravelTemplate] >>

\* a keyword of group k occurs in the lower-cased message
GroupOccurs(k, message) ==
    \E n \in 1..Len(GroupOrder[k].keywords) :
       Contains(GroupOrder[k].keywords[n], Lower(message))

\* the template of the first group that occurs, the generic one for none
FirstGroupTemplate(message) ==
    IF \E k \in 1..Len(GroupOrder) : GroupOccurs(k, message)
    THEN GroupOrder[CHOOSE k \in 1..Len(GroupOrder) :
                       /\ GroupOccurs(k, message)
                       /\ \A m \in 1..(k - 1) : ~GroupOccurs(m, message)].template
    ELSE GenericTemplate

TitlesOf(seq) == [k \in 1..Len(seq) |-> seq[k].title]

\* C23: _generate_jobs picks the template of the first keyword group that
\* occurs in the lower-cased message, in the order web, scraping, API,
\* mobile, AI/ML, e-commerce, travel, and the generic template when none
\* occurs; it returns a non-empty list in which every job has status
\* 'submitted' and an assignedAgent.
C23_FirstGroupTemplate ==
    g_calls > 0 =>
        /\ TitlesOf(g_last.jobs) = TitlesOf(FirstGroupTemplate(g_last.message))
        /\ g_last.jobs # << >>
        /\ \A k \in 1..Len(g_last.jobs) :
              /\ g_last.jobs[k].status = "submitted"
              /\ "assignedAgent" \in DOMAIN g_last.jobs[k]
              /\ g_last.jobs[k].assignedAgent.name = FirstGroupTemplate(g_last.message)[k].agent

\* "Spain trip" has a travel keyword and, in "spain", the keyword "ai" of
\* the earlier AI/ML group: the AI/ML template is returned
C23_Witness ==
    /\ g_calls > 0
    /\ g_last.message = MsgSpainTrip
    /\ GroupOccurs(5, g_last.message)
    /\ GroupOccurs(7, g_last.message)
    /\ TitlesOf(g_last.jobs) = TitlesOf(AiTemplate)

====
